---------------------------- MODULE Spec2Model ----------------------------
(***************************************************************************)
(* Model of the lead qualification and enrichment pipeline of              *)
(* internal-growth-tools: the contact resolver (lib/linkedin-enricher.ts), *)
(* the ICP qualifier (lib/linkedin-enricher.ts, lib/twitter-verifier.ts),  *)
(* the batch endpoints (app/api/...) and the resumable client orchestrator *)
(* with its localStorage checkpoint (app/linkedin-enricher/page.tsx).      *)
(*                                                                         *)
(* Strings that the code takes apart are sequences: an email address is    *)
(* the sequence of its '@'-separated parts, a model response is a sequence *)
(* of lexical tokens.  A JavaScript undefined is the empty sequence.       *)
(***************************************************************************)
EXTENDS Integers, Sequences, FiniteSets, TLC

VARIABLES
    \* ---- contact resolver under test (one provider call) ----
    provider,        \* 'clado' | 'apollo': the strategy under test
    providerData,    \* what the provider's HTTP endpoint answered
    resolved,        \* what the resolver returned or threw; Pending before
    \* ---- enrichment endpoint under test (one PATCH request) ----
    request,         \* the request body and the server's configuration
    upstream,        \* lead id -> what the provider answers for that lead
    response,        \* the endpoint's HTTP response; Pending before
    \* ---- ICP qualifier under test (one call, or one batch request) ----
    llm,             \* per item of the batch, the outcome of its model call
    verdicts,        \* what the qualifier or its endpoint answered; Pending before
    \* ---- the page app/linkedin-enricher/page.tsx and its checkpoint store ----
    postUrls,            \* useState: the URLs typed, one per element
    processing,          \* useState
    enriching,           \* useState
    stage,               \* useState: "idle", "fetching", "filtering", "enriching", "complete"
    results,             \* useState: the leads shown
    stats,               \* useState: the counters, NullStats before the first run
    error,               \* useState: "" for null
    savedState,          \* useState: the checkpoint offered for resume, NoCheckpoint for null
    enrichmentProvider,  \* useState
    storage,             \* localStorage[STORAGE_KEY], NoCheckpoint when absent
    now,                 \* Date.now(), in days
    run,                 \* the handler in progress or last finished: its locals and where it waits
    sent,                \* the profiles of the leads the run has sent to the enrichment endpoint
    writes,              \* the checkpoints the last step passed to saveProgress, in order
    handlers,            \* the handlers in progress, when clicks are taken while one runs
    \* ---- a function of lib/ under test (one call) ----
    call,            \* the function called and its arguments
    returned         \* what the call returned; Pending before

resolverVars == <<provider, providerData, resolved>>
patchVars == <<request, upstream, response>>
qualifierVars == <<llm, verdicts>>
pageVars == <<postUrls, processing, enriching, stage, results, stats, error, savedState,
              enrichmentProvider>>
orchVars == <<pageVars, storage, now, run, sent, writes, handlers>>
libVars == <<call, returned>>

vars == <<provider, providerData, resolved, request, upstream, response, llm, verdicts,
          postUrls, processing, enriching, stage, results, stats, error, savedState,
          enrichmentProvider, storage, now, run, sent, writes, handlers, call, returned>>

(***************************************************************************)
(* Bounds of the model.                                                    *)
(***************************************************************************)
MaxContacts == 2          \* contacts in one provider answer

Undefined == <<>>
Pending == [pending |-> TRUE]

(***************************************************************************)
(* Contact resolver: lib/linkedin-enricher.ts                              *)
(***************************************************************************)

\* String.prototype.toLowerCase on the address parts the model uses.
ToLowerCase(s) ==
    CASE s = "Yahoo.COM" -> "yahoo.com"
      [] s = "GMAIL.com" -> "gmail.com"
      [] s = "B"         -> "b"
      [] OTHER           -> s

personalDomains ==
    { "gmail.com", "yahoo.com", "aol.com", "hotmail.com", "outlook.com",
      "icloud.com", "me.com", "mac.com", "live.com", "msn.com",
      "ymail.com", "rocketmail.com", "googlemail.com", "protonmail.com",
      "mail.com", "zoho.com", "gmx.com", "inbox.com" }

\* email.toLowerCase().split('@')[1]: the second '@'-separated part, or undefined.
DomainPart(email) ==
    IF Len(email) >= 2 THEN <<ToLowerCase(email[2])>> ELSE Undefined

isPersonalEmailNoLowerCase(email) ==
    Len(email) >= 2 /\ email[2] \in personalDomains

isPersonalEmail(email) ==
    /\ DomainPart(email) # Undefined
    /\ DomainPart(email)[1] \in personalDomains

\* (c.rating || 0)
RatingOrZero(c) == IF c.rating = Undefined THEN 0 ELSE c.rating[1]

\* Array.prototype.sort with the comparator (b.rating||0) - (a.rating||0):
\* a stable sort (ECMAScript 2019), descending by rating.
InsertByRating(sorted, c) ==
    LET before == { j \in 1..Len(sorted) : RatingOrZero(sorted[j]) < RatingOrZero(c) }
        pos == IF before = {} THEN Len(sorted) + 1
               ELSE CHOOSE j \in before : \A k \in before : j <= k
    IN  SubSeq(sorted, 1, pos - 1) \o <<c>> \o SubSeq(sorted, pos, Len(sorted))

RECURSIVE SortByRatingDesc(_)
SortByRatingDesc(s) ==
    IF s = <<>> THEN <<>>
    ELSE InsertByRating(SortByRatingDesc(SubSeq(s, 1, Len(s) - 1)), s[Len(s)])

Thrown(msg) == [threw |-> TRUE, error |-> msg, contact |-> Undefined]
Returned(c) == [threw |-> FALSE, error |-> "", contact |-> <<c>>]

NoEmailContact ==
    [email |-> Undefined, email_rating |-> Undefined, email_subtype |-> Undefined,
     company_domain |-> Undefined]

\* A string is truthy when it is defined and not empty.
Truthy(str) == str # Undefined /\ str # <<"">>

\* The categories kept, in the order they are concatenated.
BySubType(emails, subType) ==
    SelectSeq(emails, LAMBDA c : c.subType = subType /\ ~isPersonalEmail(c.value))

ContactOf(selected) ==
    IF selected = <<>> THEN NoEmailContact
    ELSE LET selectedEmail == selected[1]
         IN  [email |-> selectedEmail.value,
              email_rating |-> selectedEmail.rating,
              email_subtype |-> <<selectedEmail.subType>>,
              company_domain |-> IF Truthy(selectedEmail.value)
                                 THEN DomainPart(selectedEmail.value)
                                 ELSE Undefined]

\* prioritizedEmails of the current enrichContact: verified, work, risky.
prioritizedEmails(emails) ==
    BySubType(emails, "verified") \o BySubType(emails, "work") \o BySubType(emails, "risky")

\* prioritizedEmails of the earlier enrichContact: verified, work, professional.
prioritizedEmailsProfessional(emails) ==
    BySubType(emails, "verified") \o BySubType(emails, "work")
        \o BySubType(emails, "professional")

SelectFirst(sorted) == IF sorted = <<>> THEN <<>> ELSE <<sorted[1]>>

enrichContact(data) ==
    IF data.kind = "httpError" THEN Thrown("Clado API error")
    ELSE IF data.kind = "errorFlag" THEN Thrown("Contact enrichment failed")
    ELSE LET emails == SelectSeq(data.contacts, LAMBDA c : c.type = "email")
             sorted == SortByRatingDesc(prioritizedEmails(emails))
         IN  Returned(ContactOf(SelectFirst(sorted)))

enrichContactProfessional(data) ==
    IF data.kind = "httpError" THEN Thrown("Clado API error")
    ELSE IF data.kind = "errorFlag" THEN Thrown("Contact enrichment failed")
    ELSE LET emails == SelectSeq(data.contacts, LAMBDA c : c.type = "email")
             sorted == SortByRatingDesc(prioritizedEmailsProfessional(emails))
             c == ContactOf(SelectFirst(sorted))
         IN  Returned([c EXCEPT !.company_domain = Undefined])

\* person.email || person.primary_email || null
ApolloEmail(person) ==
    IF Truthy(person.email) THEN person.email
    ELSE IF Truthy(person.primary_email) THEN person.primary_email
    ELSE Undefined

enrichContactApollo(data) ==
    IF ~data.hasFirstName \/ ~data.hasCompany
    THEN Thrown("Missing required data for Apollo enrichment")
    ELSE IF data.kind = "httpError" THEN Thrown("Apollo API error")
    ELSE LET email == ApolloEmail(data.person)
             filteredEmail == IF Truthy(email) /\ isPersonalEmail(email)
                              THEN Undefined ELSE email
         IN  Returned([email |-> filteredEmail,
                       email_rating |-> IF Truthy(filteredEmail) THEN <<90>> ELSE Undefined,
                       email_subtype |-> IF Truthy(filteredEmail) THEN <<"apollo">>
                                         ELSE Undefined,
                       company_domain |-> data.person.organization_domain])

(***************************************************************************)
(* The provider answers the resolver is checked on.                        *)
(***************************************************************************)
EmailValues ==
    { <<"a", "gmail.com">>, <<"B", "Yahoo.COM">>, <<"x", "acme.com">>, <<"y", "acme.com">> }
SubTypes == { "verified", "work", "professional", "risky" }
Ratings == { Undefined, <<40>>, <<60>> }

EmailContacts ==
    [type : {"email"}, subType : SubTypes, value : EmailValues, rating : Ratings]
PhoneContacts ==
    [type : {"phone"}, subType : {"mobile"}, value : {<<"555-0100">>}, rating : {<<80>>}]
Contacts == EmailContacts \cup PhoneContacts

ContactLists == UNION { [1..n -> Contacts] : n \in 0..MaxContacts }

CladoAnswers ==
    [kind : {"ok"}, contacts : ContactLists]
        \cup [kind : {"httpError", "errorFlag"}, contacts : {<<>>}]

ApolloPersons ==
    [email : EmailValues \cup {Undefined, <<"">>},
     primary_email : EmailValues \cup {Undefined},
     organization_domain : {Undefined, <<"acme.com">>}]
ApolloAnswers ==
    [kind : {"ok"}, hasFirstName : BOOLEAN, hasCompany : BOOLEAN, person : ApolloPersons]
        \cup [kind : {"httpError"}, hasFirstName : {TRUE}, hasCompany : {TRUE},
              person : {[email |-> Undefined, primary_email |-> Undefined,
                         organization_domain |-> Undefined]}]

IdleResolver ==
    /\ provider = "clado"
    /\ providerData = [kind |-> "ok", contacts |-> <<>>]
    /\ resolved = Pending

IdlePatch ==
    /\ request = Pending
    /\ upstream = <<>>
    /\ response = Pending

IdleQualifier ==
    /\ llm = <<>>
    /\ verdicts = Pending

IdleLibrary ==
    /\ call = Pending
    /\ returned = Pending

NoCheckpoint == [none |-> TRUE]     \* null for a SavedState
NullStats == [null |-> TRUE]        \* null for the stats
NoRun == [name |-> "none", pc |-> "none"]

\* The page as useState initialises it, nothing stored, no handler called.
FreshPage ==
    /\ postUrls = <<>>
    /\ processing = FALSE
    /\ enriching = FALSE
    /\ stage = "idle"
    /\ results = <<>>
    /\ stats = NullStats
    /\ error = ""
    /\ savedState = NoCheckpoint
    /\ enrichmentProvider = "clado"

IdleOrchestrator ==
    /\ FreshPage
    /\ storage = NoCheckpoint
    /\ now = 0
    /\ run = NoRun
    /\ handlers = <<>>
    /\ sent = <<>>
    /\ writes = <<>>

InitResolver ==
    /\ provider \in {"clado", "apollo"}
    /\ providerData \in IF provider = "clado" THEN CladoAnswers ELSE ApolloAnswers
    /\ resolved = Pending
    /\ IdlePatch
    /\ IdleQualifier
    /\ IdleOrchestrator
    /\ IdleLibrary

CallEnrichContact ==
    /\ resolved = Pending
    /\ provider = "clado"
    /\ resolved' = [fn |-> "enrichContact"] @@ enrichContact(providerData)
    /\ UNCHANGED <<provider, providerData, patchVars, qualifierVars, orchVars, libVars>>

CallEnrichContactProfessional ==
    /\ resolved = Pending
    /\ provider = "clado"
    /\ resolved' = [fn |-> "enrichContactProfessional"]
                       @@ enrichContactProfessional(providerData)
    /\ UNCHANGED <<provider, providerData, patchVars, qualifierVars, orchVars, libVars>>

CallEnrichContactApollo ==
    /\ resolved = Pending
    /\ provider = "apollo"
    /\ resolved' = [fn |-> "enrichContactApollo"] @@ enrichContactApollo(providerData)
    /\ UNCHANGED <<provider, providerData, patchVars, qualifierVars, orchVars, libVars>>

NextResolver ==
    \/ CallEnrichContact
    \/ CallEnrichContactProfessional
    \/ CallEnrichContactApollo

SpecResolver == InitResolver /\ [][NextResolver]_vars

(***************************************************************************)
(* Enrichment endpoint: PATCH /api/linkedin-enricher                       *)
(***************************************************************************)
ENRICHMENT_BATCH_SIZE == 5

Min(a, b) == IF a < b THEN a ELSE b

RECURSIVE SumSeq(_)
SumSeq(s) == IF s = <<>> THEN 0 ELSE s[1] + SumSeq(Tail(s))

\* A lead as handleSubmit hands it over: accepted, not yet enriched.
PendingLead(id) ==
    [profile |-> id, icp_result |-> "ACCEPT", contact |-> NoEmailContact,
     enrichment_status |-> "PENDING", error |-> ""]

\* provider === 'apollo' ? enrichContactApollo(lead.profile, ...) : enrichContact(...)
Resolve(lead, prov, ups) ==
    IF prov = "apollo" THEN enrichContactApollo(ups[lead.profile].apollo)
    ELSE enrichContact(ups[lead.profile].clado)

\* The mutant of EnrichLead with the try/catch left out: the promise rejects.
EnrichLeadNoCatch(lead, prov, ups) ==
    LET r == Resolve(lead, prov, ups)
    IN  IF r.threw
        THEN [status |-> "rejected", success |-> 0, failed |-> 0, value |-> lead]
        ELSE IF Truthy(r.contact[1].email)
        THEN [status |-> "fulfilled", success |-> 1, failed |-> 0,
              value |-> [lead EXCEPT !.contact = r.contact[1],
                                     !.enrichment_status = "SUCCESS", !.error = ""]]
        ELSE [status |-> "fulfilled", success |-> 0, failed |-> 1,
              value |-> [lead EXCEPT !.contact = NoEmailContact,
                                     !.enrichment_status = "FAILED",
                                     !.error = "No email found"]]

\* The mutant of EnrichLead that takes any defined email, also an empty one.
EnrichLeadAnyEmail(lead, prov, ups) ==
    LET r == Resolve(lead, prov, ups)
    IN  IF r.threw
        THEN [status |-> "fulfilled", success |-> 0, failed |-> 1,
              value |-> [lead EXCEPT !.contact = NoEmailContact,
                                     !.enrichment_status = "FAILED", !.error = r.error]]
        ELSE IF r.contact[1].email # Undefined
        THEN [status |-> "fulfilled", success |-> 1, failed |-> 0,
              value |-> [lead EXCEPT !.contact = r.contact[1],
                                     !.enrichment_status = "SUCCESS", !.error = ""]]
        ELSE [status |-> "fulfilled", success |-> 0, failed |-> 1,
              value |-> [lead EXCEPT !.contact = NoEmailContact,
                                     !.enrichment_status = "FAILED",
                                     !.error = "No email found"]]

\* The callback of batch.map: one settled promise and what it added to the
\* two counters.
EnrichLead(lead, prov, ups) ==
    LET r == Resolve(lead, prov, ups)
    IN  IF r.threw
        THEN [status |-> "fulfilled", success |-> 0, failed |-> 1,
              value |-> [lead EXCEPT !.contact = NoEmailContact,
                                     !.enrichment_status = "FAILED", !.error = r.error]]
        ELSE IF Truthy(r.contact[1].email)
        THEN [status |-> "fulfilled", success |-> 1, failed |-> 0,
              value |-> [lead EXCEPT !.contact = r.contact[1],
                                     !.enrichment_status = "SUCCESS", !.error = ""]]
        ELSE [status |-> "fulfilled", success |-> 0, failed |-> 1,
              value |-> [lead EXCEPT !.contact = NoEmailContact,
                                     !.enrichment_status = "FAILED",
                                     !.error = "No email found"]]

\* for (let i = 0; i < leads.length; i += ENRICHMENT_BATCH_SIZE): Promise.allSettled
\* of the batch, then the fulfilled values pushed in batch order.
RECURSIVE EnrichmentLoop(_, _, _, _, _)
EnrichmentLoop(leads, i, acc, prov, ups) ==
    IF i >= Len(leads) THEN acc
    ELSE LET batch == SubSeq(leads, i + 1, Min(i + ENRICHMENT_BATCH_SIZE, Len(leads)))
             enrichmentResults == [k \in 1..Len(batch) |-> EnrichLead(batch[k], prov, ups)]
             fulfilled == SelectSeq(enrichmentResults, LAMBDA r : r.status = "fulfilled")
         IN  EnrichmentLoop(leads, i + ENRICHMENT_BATCH_SIZE,
                 [enrichedLeads |-> acc.enrichedLeads
                                       \o [k \in 1..Len(fulfilled) |-> fulfilled[k].value],
                  successfulEnrichments |-> acc.successfulEnrichments
                      + SumSeq([k \in 1..Len(batch) |-> enrichmentResults[k].success]),
                  failedEnrichments |-> acc.failedEnrichments
                      + SumSeq([k \in 1..Len(batch) |-> enrichmentResults[k].failed])],
                 prov, ups)

ErrorResponse(code, msg) ==
    [ok |-> FALSE, status |-> code, error |-> msg,
     enriched |-> 0, failed_enrichments |-> 0, results |-> <<>>]

PATCH(req, ups) ==
    IF req.provider = "clado" /\ ~req.cladoApiKey
    THEN ErrorResponse(500, "CLADO_API_KEY not configured")
    ELSE IF req.provider = "apollo" /\ ~req.apolloApiKey
    THEN ErrorResponse(500, "APOLLO_API_KEY not configured")
    ELSE IF ~req.leadsIsArray \/ Len(req.leads) = 0
    THEN ErrorResponse(400, "No leads provided for enrichment")
    ELSE LET acc == EnrichmentLoop(req.leads, 0,
                        [enrichedLeads |-> <<>>, successfulEnrichments |-> 0,
                         failedEnrichments |-> 0], req.provider, ups)
         IN  [ok |-> TRUE, status |-> 200, error |-> "",
              enriched |-> acc.successfulEnrichments,
              failed_enrichments |-> acc.failedEnrichments,
              results |-> acc.enrichedLeads]

(***************************************************************************)
(* The provider answers the endpoint is checked on: per lead, what Clado   *)
(* and what Apollo answer.                                                 *)
(***************************************************************************)
MaxRequestLeads == 6      \* leads in one PATCH request

EmailContact(subType, value, rating) ==
    [type |-> "email", subType |-> subType, value |-> value, rating |-> rating]
PhoneContact == [type |-> "phone", subType |-> "mobile", value |-> <<"555-0100">>,
                 rating |-> <<80>>]

ApolloAnswer(email) ==
    [kind |-> "ok", hasFirstName |-> TRUE, hasCompany |-> TRUE,
     person |-> [email |-> email, primary_email |-> Undefined,
                 organization_domain |-> <<"acme.com">>]]

AnswerWithEmail ==
    [clado |-> [kind |-> "ok",
                contacts |-> <<PhoneContact, EmailContact("verified", <<"x", "acme.com">>, <<60>>)>>],
     apollo |-> ApolloAnswer(<<"x", "acme.com">>)]
AnswerPhoneOnly ==
    [clado |-> [kind |-> "ok", contacts |-> <<PhoneContact>>],
     apollo |-> ApolloAnswer(Undefined)]
AnswerPersonalOrEmpty ==
    [clado |-> [kind |-> "ok",
                contacts |-> <<EmailContact("verified", <<"a", "gmail.com">>, <<60>>),
                               EmailContact("risky", <<"">>, <<40>>)>>],
     apollo |-> ApolloAnswer(<<"a", "gmail.com">>)]
AnswerError ==
    [clado |-> [kind |-> "httpError", contacts |-> <<>>],
     apollo |-> [ApolloAnswer(Undefined) EXCEPT !.hasCompany = FALSE]]

LeadAnswers == { AnswerWithEmail, AnswerPhoneOnly, AnswerPersonalOrEmpty, AnswerError }

Requests ==
    [leads : { [k \in 1..n |-> PendingLead(k)] : n \in 0..MaxRequestLeads },
     leadsIsArray : {TRUE},
     provider : {"clado", "apollo"},
     cladoApiKey : BOOLEAN, apolloApiKey : BOOLEAN]
    \cup [leads : {<<>>}, leadsIsArray : {FALSE}, provider : {"clado"},
          cladoApiKey : {TRUE}, apolloApiKey : {TRUE}]

InitPatch ==
    /\ request \in { r \in Requests : r.cladoApiKey \/ r.apolloApiKey }
    /\ upstream \in [1..Len(request.leads) -> LeadAnswers]
    /\ response = Pending
    /\ IdleResolver
    /\ IdleLibrary
    /\ IdleQualifier
    /\ IdleOrchestrator

HandlePATCH ==
    /\ response = Pending
    /\ response' = PATCH(request, upstream)
    /\ UNCHANGED <<request, upstream, resolverVars, qualifierVars, orchVars, libVars>>

NextPatch == HandlePATCH

SpecPatch == InitPatch /\ [][NextPatch]_vars

(***************************************************************************)
(* ICP qualifier: filterByICP (lib/linkedin-enricher.ts) and analyzeLead   *)
(* (lib/twitter-verifier.ts).  The model's response text is a sequence of  *)
(* tokens: "V" a complete verdict object {"decision":"ACCEPT",...}, "{"    *)
(* and "}" stray braces, "fence" a code fence of three backticks, "json" the fence's language   *)
(* tag, " " whitespace and "t" a word of commentary.                       *)
(***************************************************************************)
MaxTokens == 5            \* tokens in one model response
MaxBatch == 4             \* items in one batch request of the qualifier

Tokens == { "V", "{", "}", "fence", "json", " ", "t" }

FallbackVerdict(why) == [decision |-> "REJECT", confidence |-> "LOW", reasoning |-> why]
ModelVerdict == [decision |-> "ACCEPT", confidence |-> "HIGH", reasoning |-> "model"]
EmptyObject == [decision |-> "undefined", confidence |-> "undefined", reasoning |-> "undefined"]

\* String.prototype.trim
RECURSIVE TrimStart(_)
TrimStart(s) == IF s # <<>> /\ s[1] = " " THEN TrimStart(Tail(s)) ELSE s
RECURSIVE TrimEnd(_)
TrimEnd(s) ==
    IF s # <<>> /\ s[Len(s)] = " " THEN TrimEnd(SubSeq(s, 1, Len(s) - 1)) ELSE s
Trim(s) == TrimEnd(TrimStart(s))

\* JSON.parse: the text must be one JSON value, whitespace around it allowed.
JSONParse(text) ==
    LET t == Trim(text)
    IN  IF t = <<"V">> THEN [ok |-> TRUE, value |-> ModelVerdict]
        ELSE IF Len(t) >= 2 /\ t[1] = "{" /\ t[Len(t)] = "}"
                 /\ \A k \in 2..(Len(t) - 1) : t[k] = " "
        THEN [ok |-> TRUE, value |-> EmptyObject]
        ELSE [ok |-> FALSE, value |-> EmptyObject]

IndicesOf(s, toks) == { k \in 1..Len(s) : s[k] \in toks }
MinOf(S) == CHOOSE x \in S : \A y \in S : x <= y
MaxOf(S) == CHOOSE x \in S : \A y \in S : x >= y

\* jsonContent.match(fence, optional json, whitespace, lazy capture, fence): the first fence that has a
\* fence after it, the optional tag and the whitespace behind it skipped, the
\* capture running up to the next fence.  <<>> when there is no match, <<capture>>
\* otherwise.
FenceMatch(s) ==
    LET fences == IndicesOf(s, {"fence"})
    IN  IF Cardinality(fences) < 2 THEN <<>>
        ELSE LET open == MinOf(fences)
                 close == MinOf(fences \ {open})
                 afterTag == IF open + 1 < close /\ s[open + 1] = "json"
                             THEN open + 2 ELSE open + 1
             IN  << TrimStart(SubSeq(s, afterTag, close - 1)) >>

\* indexOf('{') .. lastIndexOf('}'): a verdict object starts with the one and ends
\* with the other.
BraceSlice(s) ==
    LET starts == IndicesOf(s, {"{", "V"})
        ends == IndicesOf(s, {"}", "V"})
    IN  IF starts # {} /\ ends # {} THEN SubSeq(s, MinOf(starts), MaxOf(ends)) ELSE s

\* The wrapper stripping of filterByICP, lines 811-825.
StripWrapper(content) ==
    LET jsonContent == Trim(content)
        jsonMatch == FenceMatch(jsonContent)
        unfenced == IF jsonMatch # <<>> THEN Trim(jsonMatch[1]) ELSE jsonContent
    IN  BraceSlice(unfenced)

Resolves(v) == [threw |-> FALSE, verdict |-> v]

\* The mutant of filterByICP that throws on a non-OK status, as the first
\* version of it did inside its try block, and lets the error out.
filterByICPThrowing(outcome) ==
    IF outcome.kind \in {"networkError", "httpError", "badBody"}
    THEN [threw |-> TRUE, verdict |-> FallbackVerdict("thrown")]
    ELSE IF outcome.kind = "providerError"
    THEN Resolves(FallbackVerdict("Provider error"))
    ELSE IF outcome.content = <<>>
    THEN Resolves(FallbackVerdict("No content in AI response"))
    ELSE LET parsed == JSONParse(StripWrapper(outcome.content))
         IN  IF parsed.ok THEN Resolves(parsed.value)
             ELSE Resolves(FallbackVerdict("Error during analysis"))

filterByICP(outcome) ==
    IF outcome.kind \in {"networkError", "badBody"}
    THEN Resolves(FallbackVerdict("Error during analysis"))
    ELSE IF outcome.kind = "httpError"
    THEN Resolves(FallbackVerdict("OpenRouter API error"))
    ELSE IF outcome.kind = "providerError"
    THEN Resolves(FallbackVerdict("Provider error"))
    ELSE IF outcome.content = <<>>
    THEN Resolves(FallbackVerdict("No content in AI response"))
    ELSE LET parsed == JSONParse(StripWrapper(outcome.content))
         IN  IF parsed.ok THEN Resolves(parsed.value)
             ELSE Resolves(FallbackVerdict("Error during analysis"))

analyzeLead(outcome) ==
    IF outcome.kind \in {"networkError", "badBody"}
    THEN Resolves(FallbackVerdict("Error during analysis"))
    ELSE IF outcome.kind = "httpError"
    THEN Resolves(FallbackVerdict("OpenRouter API error"))
    ELSE IF outcome.kind = "providerError"
    THEN Resolves(FallbackVerdict("Provider error"))
    ELSE IF outcome.content = <<>>
    THEN Resolves(FallbackVerdict("No content in AI response"))
    ELSE LET parsed == JSONParse(outcome.content)
         IN  IF parsed.ok THEN Resolves(parsed.value)
             ELSE Resolves(FallbackVerdict("Error during analysis"))

(***************************************************************************)
(* Batch endpoints of the qualifier: POST /api/linkedin-enricher/filter    *)
(* and PATCH /api/twitter-verifier.  Item k of the batch is the profile    *)
(* (lead) k; llm[k] is what its model call does.                           *)
(***************************************************************************)
FILTER_ROUTE_BATCH_SIZE == 3
MAX_PROFILES_PER_REQUEST == 10

\* processBatch: Promise.allSettled over the batch, the fulfilled values kept in
\* batch order.
processBatch(profiles, outcomes) ==
    LET settledAll == [k \in 1..Len(profiles) |-> filterByICP(outcomes[profiles[k]])]
        kept == SelectSeq([k \in 1..Len(profiles) |->
                              [profile |-> profiles[k], settled |-> settledAll[k]]],
                          LAMBDA r : ~r.settled.threw)
    IN  [k \in 1..Len(kept) |->
            [profile |-> kept[k].profile, icp_result |-> kept[k].settled.verdict]]

RECURSIVE FilterLoop(_, _, _, _)
FilterLoop(profiles, i, allResults, outcomes) ==
    IF i >= Len(profiles) THEN allResults
    ELSE FilterLoop(profiles, i + FILTER_ROUTE_BATCH_SIZE,
             allResults \o processBatch(
                 SubSeq(profiles, i + 1, Min(i + FILTER_ROUTE_BATCH_SIZE, Len(profiles))),
                 outcomes),
             outcomes)

FilterError(code, msg) == [ok |-> FALSE, status |-> code, error |-> msg, results |-> <<>>]

\* The mutant of FilterPOST without the limit on the profiles of one request.
FilterPOSTNoLimit(req, outcomes) ==
    IF ~req.openRouterKey THEN FilterError(500, "OPENROUTER_API_KEY not configured")
    ELSE IF ~req.isArray THEN FilterError(400, "profiles must be an array")
    ELSE IF Len(req.profiles) = 0 THEN FilterError(400, "No profiles provided for filtering")
    ELSE [ok |-> TRUE, status |-> 200, error |-> "",
          results |-> FilterLoop(req.profiles, 0, <<>>, outcomes)]

\* POST of app/api/linkedin-enricher/filter/route.ts
FilterPOST(req, outcomes) ==
    IF ~req.openRouterKey THEN FilterError(500, "OPENROUTER_API_KEY not configured")
    ELSE IF ~req.isArray THEN FilterError(400, "profiles must be an array")
    ELSE IF Len(req.profiles) = 0 THEN FilterError(400, "No profiles provided for filtering")
    ELSE IF Len(req.profiles) > MAX_PROFILES_PER_REQUEST
    THEN FilterError(400, "Too many profiles")
    ELSE [ok |-> TRUE, status |-> 200, error |-> "",
          results |-> FilterLoop(req.profiles, 0, <<>>, outcomes)]

\* PATCH of app/api/twitter-verifier/route.ts
TwitterPATCH(req, outcomes) ==
    IF ~req.openRouterKey THEN FilterError(500, "OPENROUTER_API_KEY not configured")
    ELSE IF ~req.isArray \/ Len(req.profiles) = 0
    THEN FilterError(400, "Must provide an array of leads")
    ELSE [ok |-> TRUE, status |-> 200, error |-> "",
          results |-> [k \in 1..Len(req.profiles) |->
              LET result == analyzeLead(outcomes[req.profiles[k]])
              IN  IF ~result.threw
                  THEN [profile |-> req.profiles[k], icp_result |-> result.verdict]
                  ELSE [profile |-> req.profiles[k],
                        icp_result |-> FallbackVerdict("Error")]]]

(***************************************************************************)
(* The model calls the qualifier is checked on: one call on every response *)
(* text of up to MaxTokens tokens, and batches of up to MaxBatch items.    *)
(***************************************************************************)
TokenSeqs == UNION { [1..n -> Tokens] : n \in 0..MaxTokens }

FailedCall(kind) == [kind |-> kind, content |-> <<>>]
ContentCall(content) == [kind |-> "content", content |-> content]

TransportFailures == { FailedCall("networkError"), FailedCall("httpError"),
                       FailedCall("badBody") }
BatchOutcomes ==
    TransportFailures \cup { FailedCall("providerError"), ContentCall(<<>>),
                             ContentCall(<<"t">>), ContentCall(<<"V">>) }

InitQualifier ==
    /\ \/ llm \in { <<ContentCall(c)>> : c \in TokenSeqs }
       \/ llm \in UNION { [1..n -> BatchOutcomes] : n \in 0..MaxBatch }
       \/ llm \in { [k \in 1..n |-> ContentCall(<<"V">>)] :
                      n \in MAX_PROFILES_PER_REQUEST..(MAX_PROFILES_PER_REQUEST + 1) }
    /\ verdicts = Pending
    /\ IdleResolver
    /\ IdleLibrary
    /\ IdlePatch
    /\ IdleOrchestrator

BatchRequest == [profiles |-> [k \in 1..Len(llm) |-> k], isArray |-> TRUE,
                 openRouterKey |-> TRUE]

CallFilterByICP ==
    /\ verdicts = Pending
    /\ Len(llm) = 1
    /\ verdicts' = [fn |-> "filterByICP", single |-> <<filterByICP(llm[1])>>,
                    batch |-> FilterError(0, "")]
    /\ UNCHANGED <<llm, resolverVars, patchVars, orchVars, libVars>>

CallAnalyzeLead ==
    /\ verdicts = Pending
    /\ Len(llm) = 1
    /\ verdicts' = [fn |-> "analyzeLead", single |-> <<analyzeLead(llm[1])>>,
                    batch |-> FilterError(0, "")]
    /\ UNCHANGED <<llm, resolverVars, patchVars, orchVars, libVars>>

HandleFilterPOST ==
    /\ verdicts = Pending
    /\ verdicts' = [fn |-> "FilterPOST", single |-> <<>>,
                    batch |-> FilterPOST(BatchRequest, llm)]
    /\ UNCHANGED <<llm, resolverVars, patchVars, orchVars, libVars>>

HandleTwitterPATCH ==
    /\ verdicts = Pending
    /\ verdicts' = [fn |-> "TwitterPATCH", single |-> <<>>,
                    batch |-> TwitterPATCH(BatchRequest, llm)]
    /\ UNCHANGED <<llm, resolverVars, patchVars, orchVars, libVars>>

NextQualifier ==
    \/ CallFilterByICP
    \/ CallAnalyzeLead
    \/ HandleFilterPOST
    \/ HandleTwitterPATCH

SpecQualifier == InitQualifier /\ [][NextQualifier]_vars

(***************************************************************************)
(* The page app/linkedin-enricher/page.tsx: the client that drives the     *)
(* fetch, filter and enrich stages group by group and checkpoints its      *)
(* progress in localStorage.  A handler runs from one await to the next in *)
(* one step; run holds its locals and the values its closure captured.     *)
(* One handler runs at a time.                                             *)
(***************************************************************************)
FILTER_BATCH_SIZE == 10
FILTER_PARALLEL_BATCHES == 2
ENRICH_BATCH_SIZE == 5
ENRICH_PARALLEL_BATCHES == 4
STALE_AFTER == 1          \* 24 * 60 * 60 * 1000 ms, in days

MaxProfiles == 23         \* profiles the fetch stage returns at most
MaxClock == 1             \* days the clock runs

ProfileCounts == { 0, 2, FILTER_BATCH_SIZE * FILTER_PARALLEL_BATCHES + 1, MaxProfiles }

\* for (let i = 0; i < list.length; i += BATCH_SIZE) batches.push(list.slice(i, i + BATCH_SIZE))
Chunks(list, size) ==
    [b \in 1..((Len(list) + size - 1) \div size) |->
        SubSeq(list, (b - 1) * size + 1, Min(b * size, Len(list)))]

\* The mutant of ParallelBatches that starts all the batches left at once.
ParallelBatchesAllLeft(batches, i, parallel) ==
    SubSeq(batches, i + 1, Len(batches))

\* batches.slice(i, i + PARALLEL_BATCHES)
ParallelBatches(batches, i, parallel) ==
    SubSeq(batches, i + 1, Min(i + parallel, Len(batches)))

RECURSIVE Flatten(_)
Flatten(ss) == IF ss = <<>> THEN <<>> ELSE ss[1] \o Flatten(Tail(ss))

\* The mutant of Processed that counts one batch of the group only.
ProcessedFirstBatch(i, parallel, size, nBatches, total) ==
    Min((i + 1) * size, total)

\* The mutant of Processed that leaves out the clamp to the list's length.
ProcessedUnclamped(i, parallel, size, nBatches, total) ==
    Min(i + parallel, nBatches) * size

\* processedBatches = Math.min(i + PARALLEL_BATCHES, batches.length);
\* processed = Math.min(processedBatches * BATCH_SIZE, list.length)
Processed(i, parallel, size, nBatches, total) ==
    Min(Min(i + parallel, nBatches) * size, total)

\* a || b on numbers
OrElse(a, b) == IF a # 0 THEN a ELSE b

Stats(total, fetched, qualified, enrichedCount, failedCount) ==
    [total_reactions |-> total, reactions_fetched |-> fetched,
     icp_qualified |-> qualified, enriched |-> enrichedCount,
     failed_enrichments |-> failedCount]

\* const loadProgress = (): SavedState | null
loadProgress(store, clock) ==
    IF store # NoCheckpoint /\ clock - store.savedAt < STALE_AFTER
    THEN store ELSE NoCheckpoint

\* The mutant of clearProgress that removes nothing.
clearProgressKeeps(store) == store

\* const clearProgress: localStorage.removeItem(STORAGE_KEY)
clearProgress(store) == NoCheckpoint

\* The mount effect: the checkpoint of an unfinished run is offered for resume.
MountEffect(store, clock) ==
    LET saved == loadProgress(store, clock)
    IN  IF saved # NoCheckpoint /\ saved.stage # "complete" /\ saved.stage # "idle"
        THEN saved ELSE NoCheckpoint

\* The mutant of PendingLeads that hands over every filter result.
PendingLeadsUngated(filtered) ==
    [k \in 1..Len(filtered) |->
        [profile |-> filtered[k].profile, icp_result |-> filtered[k].icp_result,
         contact |-> NoEmailContact, enrichment_status |-> "PENDING", error |-> ""]]

\* acceptedLeads.map(item => ({ profile, icp_result, contact: {}, enrichment_status: "PENDING" }))
PendingLeads(filtered) ==
    LET accepted == SelectSeq(filtered, LAMBDA r : r.icp_result.decision = "ACCEPT")
    IN  [k \in 1..Len(accepted) |->
            [profile |-> accepted[k].profile, icp_result |-> accepted[k].icp_result,
             contact |-> NoEmailContact, enrichment_status |-> "PENDING", error |-> ""]]

FilterRequest(batch) == [profiles |-> batch, isArray |-> TRUE, openRouterKey |-> TRUE]
EnrichRequest(batch, prov) ==
    [leads |-> batch, leadsIsArray |-> TRUE, provider |-> prov,
     cladoApiKey |-> TRUE, apolloApiKey |-> TRUE]

\* What Promise.all hands back for a group of filter requests: the responses in
\* the order of the batches.
FilterGroup(batches, i) ==
    LET group == ParallelBatches(batches, i, FILTER_PARALLEL_BATCHES)
    IN  [b \in 1..Len(group) |-> FilterPOST(FilterRequest(group[b]), llm)]

\* What Promise.all hands back for a group of enrichment requests.
EnrichGroup(batches, i, prov) ==
    LET group == ParallelBatches(batches, i, ENRICH_PARALLEL_BATCHES)
    IN  [b \in 1..Len(group) |-> PATCH(EnrichRequest(group[b], prov), upstream)]

\* batchResults.forEach(data => { enrichedLeads.push(...data.results);
\*   successCount += data.enriched; failCount += data.failed_enrichments })
Aggregate(acc, batchResults) ==
    [enrichedLeads |-> acc.enrichedLeads
         \o Flatten([b \in 1..Len(batchResults) |-> batchResults[b].results]),
     successCount |-> acc.successCount
         + SumSeq([b \in 1..Len(batchResults) |-> batchResults[b].enriched]),
     failCount |-> acc.failCount
         + SumSeq([b \in 1..Len(batchResults) |-> batchResults[b].failed_enrichments])]

ProfilesOf(leads) == [k \in 1..Len(leads) |-> leads[k].profile]

\* The mutant of RemainingLeads that starts one lead early.
RemainingLeadsFromCursorLead(leadsToEnrich, startIndex) ==
    IF startIndex = 0 THEN leadsToEnrich
    ELSE SubSeq(leadsToEnrich, startIndex, Len(leadsToEnrich))

\* leadsToEnrich.slice(startIndex)
RemainingLeads(leadsToEnrich, startIndex) ==
    SubSeq(leadsToEnrich, startIndex + 1, Len(leadsToEnrich))

\* for (let i = 0; i < startIndex && i < leadsToEnrich.length; i++) enrichedLeads.push(...)
AlreadyEnriched(leadsToEnrich, startIndex) ==
    SubSeq(leadsToEnrich, 1, Min(startIndex, Len(leadsToEnrich)))

\* The mutant of ResumedCounts that counts from zero.
ResumedCountsFromZero(saved) == [successCount |-> 0, failCount |-> 0]

\* let successCount = saved.stats.enriched; let failCount = saved.stats.failed_enrichments
ResumedCounts(saved) ==
    [successCount |-> saved.stats.enriched, failCount |-> saved.stats.failed_enrichments]

RunIdle == run.pc \in {"none", "done", "failed"}

SavedState(urls, allProfiles, filtered, leads, counters, stg, fIdx, eIdx, prov, at) ==
    [urls |-> urls, allProfiles |-> allProfiles, filteredResults |-> filtered,
     results |-> leads, stats |-> counters, stage |-> stg, filterIndex |-> fIdx,
     enrichIndex |-> eIdx, enrichmentProvider |-> prov, savedAt |-> at]

\* The locals of a handler; the fields a handler does not have stay as here.
NewRun(name, pc) ==
    [name |-> name, pc |-> pc, urls |-> <<>>, allProfiles |-> <<>>,
     allFilteredResults |-> <<>>, filteredResults |-> <<>>, batches |-> <<>>, i |-> 0,
     leads |-> <<>>, capturedStats |-> NullStats, prov |-> "clado",
     enrichedLeads |-> <<>>, successCount |-> 0, failCount |-> 0,
     saved |-> NoCheckpoint, startIndex |-> 0]

IsFilterRun == run.name \in {"handleSubmit", "resumeFiltering"}
IsEnrichRun == run.name \in {"handleEnrich", "resumeEnriching"}
ParallelOf(name) ==
    IF name \in {"handleSubmit", "resumeFiltering"}
    THEN FILTER_PARALLEL_BATCHES ELSE ENRICH_PARALLEL_BATCHES
\* The mutant of MoreGroups that leaves out a last group of one batch.
MoreGroupsButOne == run.i + ParallelOf(run.name) < Len(run.batches) - 1

\* i + PARALLEL_BATCHES < batches.length
MoreGroups == run.i + ParallelOf(run.name) < Len(run.batches)

(***************************************************************************)
(* The runs the page is checked on: the model call of profile k answers as *)
(* llm[k], the contact providers answer for profile k as upstream[k].      *)
(***************************************************************************)
Cycle(seed, n) == [k \in 1..n |-> seed[((k - 1) % Len(seed)) + 1]]

Accepting == ContentCall(<<"V">>)
IcpSeeds ==
    { <<Accepting, Accepting, Accepting, Accepting, Accepting, Accepting, Accepting,
        Accepting, Accepting, ContentCall(<<"fence", "V", "fence">>),
        FailedCall("httpError")>> }
AnswerSeeds ==
    { <<AnswerWithEmail, AnswerPhoneOnly, AnswerError, AnswerPersonalOrEmpty>> }

Init ==
    /\ llm \in { Cycle(seed, MaxProfiles) : seed \in IcpSeeds }
    /\ upstream \in { Cycle(seed, MaxProfiles) : seed \in AnswerSeeds }
    /\ FreshPage
    /\ storage = NoCheckpoint
    /\ now = 0
    /\ run = NoRun
    /\ handlers = <<>>
    /\ sent = <<>>
    /\ writes = <<>>
    /\ IdleResolver
    /\ IdleLibrary
    /\ request = Pending
    /\ response = Pending
    /\ verdicts = Pending

serverVars == <<resolverVars, patchVars, qualifierVars, libVars>>

\* A day passes.
Tick ==
    /\ now < MaxClock
    /\ now' = now + 1
    /\ writes' = <<>>
    /\ UNCHANGED <<pageVars, storage, run, sent, serverVars,
                   handlers>>

\* The page is loaded anew: the state is initialised, the handler in progress is
\* gone, and the mount effect looks for a checkpoint.
Reload ==
    /\ postUrls' = <<>>
    /\ processing' = FALSE
    /\ enriching' = FALSE
    /\ stage' = "idle"
    /\ results' = <<>>
    /\ stats' = NullStats
    /\ error' = ""
    /\ enrichmentProvider' = "clado"
    /\ savedState' = MountEffect(storage, now)
    /\ run' = NoRun
    /\ sent' = <<>>
    /\ writes' = <<>>
    /\ UNCHANGED <<storage, now, serverVars,
                   handlers>>

\* onChange of the textarea, disabled while processing
TypeUrls ==
    /\ ~processing
    /\ postUrls = <<>>
    /\ postUrls' = <<"post">>
    /\ writes' = <<>>
    /\ UNCHANGED <<processing, enriching, stage, results, stats, error, savedState,
                   enrichmentProvider, storage, now, run, sent, serverVars,
                   handlers>>

HasPending(leads) == \E k \in 1..Len(leads) : leads[k].enrichment_status = "PENDING"

\* The enrichment panel is rendered, with its provider choice and its button.
EnrichPanelShown ==
    /\ results # <<>>
    /\ ~processing
    /\ HasPending(results)
    /\ ~enriching

\* onChange of the provider radio buttons
SelectProvider ==
    /\ EnrichPanelShown
    /\ enrichmentProvider' = IF enrichmentProvider = "clado" THEN "apollo" ELSE "clado"
    /\ writes' = <<>>
    /\ UNCHANGED <<postUrls, processing, enriching, stage, results, stats, error,
                   savedState, storage, now, run, sent, serverVars,
                   handlers>>

\* const handleDiscardSaved
HandleDiscardSaved ==
    /\ savedState # NoCheckpoint
    /\ storage' = clearProgress(storage)
    /\ savedState' = NoCheckpoint
    /\ writes' = <<>>
    /\ UNCHANGED <<postUrls, processing, enriching, stage, results, stats, error,
                   enrichmentProvider, now, run, sent, serverVars,
                   handlers>>

\* setTimeout between two groups has fired: the next group's requests go out.
DelayElapses ==
    /\ run.pc = "delay"
    /\ run' = [run EXCEPT !.pc = "group", !.i = @ + ParallelOf(run.name)]
    /\ sent' = IF IsEnrichRun
               THEN sent \o ProfilesOf(Flatten(ParallelBatches(run.batches,
                        run.i + ENRICH_PARALLEL_BATCHES, ENRICH_PARALLEL_BATCHES)))
               ELSE sent
    /\ writes' = <<>>
    /\ UNCHANGED <<pageVars, storage, now, serverVars,
                   handlers>>

\* handleSubmit, from the click to the await of the fetch requests
HandleSubmit ==
    /\ postUrls # <<>>
    /\ ~processing
    /\ RunIdle
    /\ processing' = TRUE
    /\ error' = ""
    /\ results' = <<>>
    /\ stats' = NullStats
    /\ stage' = "fetching"
    /\ run' = [NewRun("handleSubmit", "fetch") EXCEPT !.urls = postUrls]
    /\ sent' = <<>>
    /\ writes' = <<>>
    /\ UNCHANGED <<postUrls, enriching, savedState, enrichmentProvider, storage, now,
                   serverVars,
                   handlers>>

\* handleSubmit, from the fetch responses to the first group of filter requests
FetchSettles ==
    /\ run.name = "handleSubmit"
    /\ run.pc = "fetch"
    /\ \E n \in ProfileCounts :
          LET allProfiles == [k \in 1..n |-> k]
          IN  IF n = 0
              THEN /\ stats' = Stats(0, 0, 0, 0, 0)
                   /\ stage' = "complete"
                   /\ processing' = FALSE
                   /\ run' = [run EXCEPT !.pc = "done"]
              ELSE /\ stats' = stats
                   /\ stage' = "filtering"
                   /\ processing' = processing
                   /\ run' = [run EXCEPT !.pc = "group", !.allProfiles = allProfiles,
                                         !.batches = Chunks(allProfiles, FILTER_BATCH_SIZE),
                                         !.i = 0]
    /\ writes' = <<>>
    /\ UNCHANGED <<postUrls, enriching, results, error, savedState, enrichmentProvider,
                   storage, now, sent, serverVars,
                   handlers>>

\* handleSubmit: a fetch request rejects, or a filter request of the group in
\* flight fails; the catch block and the finally block
SubmitFails ==
    /\ run.name = "handleSubmit"
    /\ \/ run.pc = "fetch"
       \/ run.pc = "group"
    /\ error' = "Failed to process LinkedIn post"
    /\ stage' = "idle"
    /\ processing' = FALSE
    /\ run' = [run EXCEPT !.pc = "failed"]
    /\ writes' = <<>>
    /\ UNCHANGED <<postUrls, enriching, results, stats, savedState, enrichmentProvider,
                   storage, now, sent, serverVars,
                   handlers>>

\* handleSubmit, from the responses of a group of filter requests to the delay
\* before the next group or, after the last group, to the end of the handler
SubmitGroupSettles ==
    /\ run.name = "handleSubmit"
    /\ run.pc = "group"
    /\ \E batchResults \in {FilterGroup(run.batches, run.i)} :
       \E allFilteredResults \in
              {run.allFilteredResults
                   \o Flatten([b \in 1..Len(batchResults) |-> batchResults[b].results])} :
       \E pendingLeads \in {PendingLeads(allFilteredResults)} :
          LET total == Len(run.allProfiles)
              processedProfiles == Processed(run.i, FILTER_PARALLEL_BATCHES,
                                       FILTER_BATCH_SIZE, Len(run.batches), total)
              groupSaved == SavedState(run.urls, run.allProfiles, allFilteredResults, <<>>,
                                Stats(total, total, 0, 0, 0), "filtering",
                                processedProfiles, 0, "undefined", now)
              completeStats == Stats(total, total, Len(pendingLeads), 0, 0)
              completeSaved == SavedState(run.urls, run.allProfiles, allFilteredResults,
                                   pendingLeads, completeStats, "complete", total, 0,
                                   "undefined", now)
          IN  /\ \A b \in 1..Len(batchResults) : batchResults[b].ok
              /\ IF MoreGroups
                 THEN /\ storage' = groupSaved
                      /\ writes' = <<groupSaved>>
                      /\ run' = [run EXCEPT !.pc = "delay",
                                            !.allFilteredResults = allFilteredResults]
                      /\ UNCHANGED <<stats, results, stage, processing>>
                 ELSE /\ stats' = completeStats
                      /\ results' = pendingLeads
                      /\ stage' = "complete"
                      /\ processing' = FALSE
                      /\ storage' = completeSaved
                      /\ writes' = <<groupSaved, completeSaved>>
                      /\ run' = [run EXCEPT !.pc = "done",
                                            !.allFilteredResults = allFilteredResults]
    /\ UNCHANGED <<postUrls, enriching, error, savedState, enrichmentProvider, now, sent,
                   serverVars,
                   handlers>>

\* handleEnrich, from the click to the await of the first group of requests
HandleEnrich ==
    /\ EnrichPanelShown
    /\ RunIdle
    /\ enriching' = TRUE
    /\ error' = ""
    /\ LET savedContext == loadProgress(storage, now)
           batches == Chunks(results, ENRICH_BATCH_SIZE)
       IN  /\ run' = [NewRun("handleEnrich", "group") EXCEPT
                         !.urls = IF savedContext # NoCheckpoint
                                  THEN savedContext.urls ELSE postUrls,
                         !.allProfiles = IF savedContext # NoCheckpoint
                                         THEN savedContext.allProfiles ELSE <<>>,
                         !.filteredResults = IF savedContext # NoCheckpoint
                                             THEN savedContext.filteredResults ELSE <<>>,
                         !.leads = results,
                         !.capturedStats = stats,
                         !.prov = enrichmentProvider,
                         !.batches = batches]
           /\ sent' = ProfilesOf(Flatten(ParallelBatches(batches, 0,
                                                         ENRICH_PARALLEL_BATCHES)))
    /\ writes' = <<>>
    /\ UNCHANGED <<postUrls, processing, stage, results, stats, savedState,
                   enrichmentProvider, storage, now, serverVars,
                   handlers>>

\* handleEnrich: a request of the group in flight fails; catch and finally
EnrichFails ==
    /\ run.name = "handleEnrich"
    /\ run.pc = "group"
    /\ error' = "Failed to enrich contacts"
    /\ enriching' = FALSE
    /\ run' = [run EXCEPT !.pc = "failed"]
    /\ writes' = <<>>
    /\ UNCHANGED <<postUrls, processing, stage, results, stats, savedState,
                   enrichmentProvider, storage, now, sent, serverVars,
                   handlers>>

\* handleEnrich, from the responses of a group to the delay before the next
\* group or, after the last group, to the end of the handler
EnrichGroupSettles ==
    /\ run.name = "handleEnrich"
    /\ run.pc = "group"
    /\ \E batchResults \in {EnrichGroup(run.batches, run.i, run.prov)} :
       \E acc \in {Aggregate(run, batchResults)} :
          LET total == Len(run.leads)
              processed == Processed(run.i, ENRICH_PARALLEL_BATCHES, ENRICH_BATCH_SIZE,
                                     Len(run.batches), total)
              currentResults == acc.enrichedLeads
                                    \o SubSeq(run.leads, processed + 1, total)
              captured == run.capturedStats
              currentStats ==
                  IF captured = NullStats
                  THEN Stats(total, total, total, acc.successCount, acc.failCount)
                  ELSE Stats(OrElse(captured.total_reactions, total),
                             OrElse(captured.reactions_fetched, total),
                             OrElse(captured.icp_qualified, total),
                             acc.successCount, acc.failCount)
              groupSaved == SavedState(run.urls, run.allProfiles, run.filteredResults,
                                currentResults, currentStats, "enriching",
                                Len(run.allProfiles), processed, run.prov, now)
          IN  /\ \A b \in 1..Len(batchResults) : batchResults[b].ok
              /\ writes' = <<groupSaved>>
              /\ run' = [run EXCEPT !.pc = IF MoreGroups THEN "delay" ELSE "done",
                                    !.enrichedLeads = acc.enrichedLeads,
                                    !.successCount = acc.successCount,
                                    !.failCount = acc.failCount]
              /\ IF MoreGroups
                 THEN /\ results' = currentResults
                      /\ stats' = currentStats
                      /\ storage' = groupSaved
                      /\ UNCHANGED <<stage, enriching>>
                 ELSE /\ results' = acc.enrichedLeads
                      /\ stats' = IF captured = NullStats THEN currentStats
                                  ELSE [captured EXCEPT
                                           !.enriched = acc.successCount,
                                           !.failed_enrichments = acc.failCount]
                      /\ stage' = "complete"
                      /\ storage' = clearProgress(groupSaved)
                      /\ enriching' = FALSE
    /\ UNCHANGED <<postUrls, processing, error, savedState, enrichmentProvider, now,
                   sent, serverVars,
                   handlers>>

\* resumeFiltering, "Filtering complete": what it sets and what it saves
ResumedFilterCompletion(saved, allFilteredResults, pendingLeads, clock) ==
    LET newStats == [saved.stats EXCEPT !.icp_qualified = Len(pendingLeads)]
    IN  [stats |-> newStats, results |-> pendingLeads,
         saved |-> [saved EXCEPT !.filteredResults = allFilteredResults,
                                 !.results = pendingLeads, !.stats = newStats,
                                 !.stage = "complete",
                                 !.filterIndex = Len(saved.allProfiles),
                                 !.savedAt = clock]]

\* handleResume, from the click into resumeFiltering or resumeEnriching, up to the
\* await of the first group of requests (to the end when nothing is left to do)
HandleResume ==
    /\ savedState # NoCheckpoint
    /\ RunIdle
    /\ postUrls' = savedState.urls
    /\ error' = ""
    /\ enrichmentProvider' = IF savedState.enrichmentProvider # "undefined"
                             THEN savedState.enrichmentProvider ELSE enrichmentProvider
    /\ IF savedState.stage = "filtering"
       THEN LET saved == savedState
                startIndex == saved.filterIndex
                remainingProfiles == SubSeq(saved.allProfiles, startIndex + 1,
                                            Len(saved.allProfiles))
                batches == Chunks(remainingProfiles, FILTER_BATCH_SIZE)
                start == [NewRun("resumeFiltering", "group") EXCEPT
                             !.saved = saved, !.urls = saved.urls,
                             !.allProfiles = saved.allProfiles,
                             !.allFilteredResults = saved.filteredResults,
                             !.startIndex = startIndex, !.batches = batches]
                completion == ResumedFilterCompletion(saved, saved.filteredResults,
                                  PendingLeads(saved.filteredResults), now)
            IN  /\ sent' = <<>>
                /\ enriching' = enriching
                /\ IF batches # <<>>
                   THEN /\ stats' = saved.stats
                        /\ processing' = TRUE
                        /\ stage' = "filtering"
                        /\ run' = start
                        /\ writes' = <<>>
                        /\ UNCHANGED <<results, storage, savedState>>
                   ELSE /\ stats' = completion.stats
                        /\ results' = completion.results
                        /\ processing' = FALSE
                        /\ stage' = "complete"
                        /\ storage' = completion.saved
                        /\ writes' = <<completion.saved>>
                        /\ savedState' = NoCheckpoint
                        /\ run' = [start EXCEPT !.pc = "done"]
       ELSE IF savedState.stage = "enriching"
       THEN LET saved == savedState
                leadsToEnrich == saved.results
                startIndex == saved.enrichIndex
                counts == ResumedCounts(saved)
                copied == AlreadyEnriched(leadsToEnrich, startIndex)
                batches == Chunks(RemainingLeads(leadsToEnrich, startIndex),
                                  ENRICH_BATCH_SIZE)
                start == [NewRun("resumeEnriching", "group") EXCEPT
                             !.saved = saved, !.leads = leadsToEnrich,
                             !.startIndex = startIndex,
                             !.successCount = counts.successCount,
                             !.failCount = counts.failCount,
                             !.prov = IF saved.enrichmentProvider # "undefined"
                                      THEN saved.enrichmentProvider
                                      ELSE enrichmentProvider,
                             !.enrichedLeads = copied, !.batches = batches]
            IN  /\ stats' = saved.stats
                /\ processing' = processing
                /\ writes' = <<>>
                /\ IF batches # <<>>
                   THEN /\ results' = saved.results
                        /\ enriching' = TRUE
                        /\ stage' = "enriching"
                        /\ run' = start
                        /\ sent' = ProfilesOf(Flatten(ParallelBatches(batches, 0,
                                                          ENRICH_PARALLEL_BATCHES)))
                        /\ UNCHANGED <<storage, savedState>>
                   ELSE /\ results' = copied
                        /\ enriching' = FALSE
                        /\ stage' = "complete"
                        /\ storage' = clearProgress(storage)
                        /\ savedState' = NoCheckpoint
                        /\ run' = [start EXCEPT !.pc = "done"]
                        /\ sent' = <<>>
       ELSE /\ stats' = savedState.stats
            /\ results' = savedState.results
            /\ stage' = savedState.stage
            /\ savedState' = NoCheckpoint
            /\ run' = NewRun("handleResume", "done")
            /\ sent' = <<>>
            /\ writes' = <<>>
            /\ UNCHANGED <<processing, enriching, storage>>
    /\ UNCHANGED <<now, serverVars,
                   handlers>>

\* resumeFiltering: a request of the group in flight fails; the catch block, then
\* the end of handleResume
ResumeFilteringFails ==
    /\ run.name = "resumeFiltering"
    /\ run.pc = "group"
    /\ error' = "Failed to resume filtering"
    /\ processing' = FALSE
    /\ savedState' = NoCheckpoint
    /\ run' = [run EXCEPT !.pc = "failed"]
    /\ writes' = <<>>
    /\ UNCHANGED <<postUrls, enriching, stage, results, stats, enrichmentProvider,
                   storage, now, sent, serverVars,
                   handlers>>

\* resumeFiltering, from the responses of a group to the delay before the next
\* group or, after the last group, to the end of handleResume
ResumeFilterGroupSettles ==
    /\ run.name = "resumeFiltering"
    /\ run.pc = "group"
    /\ \E batchResults \in {FilterGroup(run.batches, run.i)} :
       \E allFilteredResults \in
              {run.allFilteredResults
                   \o Flatten([b \in 1..Len(batchResults) |-> batchResults[b].results])} :
       \E pendingLeads \in {PendingLeads(allFilteredResults)} :
          LET saved == run.saved
              remaining == Len(run.allProfiles) - run.startIndex
              processed == run.startIndex
                  + Processed(run.i, FILTER_PARALLEL_BATCHES, FILTER_BATCH_SIZE,
                              Len(run.batches), remaining)
              groupSaved == [saved EXCEPT !.filteredResults = allFilteredResults,
                                          !.filterIndex = processed, !.savedAt = now]
              completion == ResumedFilterCompletion(saved, allFilteredResults,
                                                    pendingLeads, now)
          IN  /\ \A b \in 1..Len(batchResults) : batchResults[b].ok
              /\ IF MoreGroups
                 THEN /\ storage' = groupSaved
                      /\ writes' = <<groupSaved>>
                      /\ run' = [run EXCEPT !.pc = "delay",
                                            !.allFilteredResults = allFilteredResults]
                      /\ UNCHANGED <<stats, results, stage, processing, savedState>>
                 ELSE /\ stats' = completion.stats
                      /\ results' = completion.results
                      /\ stage' = "complete"
                      /\ processing' = FALSE
                      /\ storage' = completion.saved
                      /\ writes' = <<groupSaved, completion.saved>>
                      /\ savedState' = NoCheckpoint
                      /\ run' = [run EXCEPT !.pc = "done",
                                            !.allFilteredResults = allFilteredResults]
    /\ UNCHANGED <<postUrls, enriching, error, enrichmentProvider, now, sent, serverVars,
                   handlers>>

\* resumeEnriching: a request of the group in flight fails; the catch block, then
\* the end of handleResume
ResumeEnrichingFails ==
    /\ run.name = "resumeEnriching"
    /\ run.pc = "group"
    /\ error' = "Failed to resume enrichment"
    /\ enriching' = FALSE
    /\ savedState' = NoCheckpoint
    /\ run' = [run EXCEPT !.pc = "failed"]
    /\ writes' = <<>>
    /\ UNCHANGED <<postUrls, processing, stage, results, stats, enrichmentProvider,
                   storage, now, sent, serverVars,
                   handlers>>

\* resumeEnriching, from the responses of a group to the delay before the next
\* group or, after the last group, to the end of handleResume
ResumeEnrichGroupSettles ==
    /\ run.name = "resumeEnriching"
    /\ run.pc = "group"
    /\ \E batchResults \in {EnrichGroup(run.batches, run.i, run.prov)} :
       \E acc \in {Aggregate(run, batchResults)} :
          LET saved == run.saved
              total == Len(run.leads)
              remaining == Len(RemainingLeads(run.leads, run.startIndex))
              processed == run.startIndex
                  + Processed(run.i, ENRICH_PARALLEL_BATCHES, ENRICH_BATCH_SIZE,
                              Len(run.batches), remaining)
              currentResults == acc.enrichedLeads
                                    \o SubSeq(run.leads, processed + 1, total)
              currentStats == [saved.stats EXCEPT !.enriched = acc.successCount,
                                                  !.failed_enrichments = acc.failCount]
              groupSaved == [saved EXCEPT !.results = currentResults,
                                          !.stats = currentStats,
                                          !.enrichIndex = processed, !.savedAt = now]
          IN  /\ \A b \in 1..Len(batchResults) : batchResults[b].ok
              /\ writes' = <<groupSaved>>
              /\ stats' = currentStats
              /\ run' = [run EXCEPT !.pc = IF MoreGroups THEN "delay" ELSE "done",
                                    !.enrichedLeads = acc.enrichedLeads,
                                    !.successCount = acc.successCount,
                                    !.failCount = acc.failCount]
              /\ IF MoreGroups
                 THEN /\ results' = currentResults
                      /\ storage' = groupSaved
                      /\ UNCHANGED <<stage, enriching, savedState>>
                 ELSE /\ results' = acc.enrichedLeads
                      /\ stage' = "complete"
                      /\ enriching' = FALSE
                      /\ storage' = clearProgress(groupSaved)
                      /\ savedState' = NoCheckpoint
    /\ UNCHANGED <<postUrls, processing, error, enrichmentProvider, now, sent, serverVars,
                   handlers>>

Next ==
    \/ Tick
    \/ Reload
    \/ TypeUrls
    \/ SelectProvider
    \/ HandleDiscardSaved
    \/ HandleSubmit
    \/ FetchSettles
    \/ SubmitFails
    \/ DelayElapses
    \/ SubmitGroupSettles
    \/ HandleEnrich
    \/ EnrichFails
    \/ EnrichGroupSettles
    \/ HandleResume
    \/ ResumeFilteringFails
    \/ ResumeFilterGroupSettles
    \/ ResumeEnrichingFails
    \/ ResumeEnrichGroupSettles

Spec == Init /\ [][Next]_vars

(***************************************************************************)
(* The three batch endpoints on requests of every shape: with and without  *)
(* the server's API keys, with a body that is an array, an empty array or  *)
(* not an array, and with more items than one request may carry.           *)
(***************************************************************************)
MaxEnrichItems == 2

RequestSizes == { 0, 1, 2, MAX_PROFILES_PER_REQUEST, MAX_PROFILES_PER_REQUEST + 1 }

\* A request body whose profiles (leads) field is not an array.
NotAnArray == <<>>

EnrichBodies ==
    [leads : { [k \in 1..n |-> PendingLead(k)] : n \in 0..MaxEnrichItems },
     leadsIsArray : {TRUE}, provider : {"clado", "apollo"},
     cladoApiKey : BOOLEAN, apolloApiKey : BOOLEAN]
    \cup [leads : {NotAnArray}, leadsIsArray : {FALSE}, provider : {"clado", "apollo"},
          cladoApiKey : BOOLEAN, apolloApiKey : BOOLEAN]

QualifierBodies ==
    [profiles : { [k \in 1..n |-> k] : n \in RequestSizes }, isArray : {TRUE},
     openRouterKey : BOOLEAN]
    \cup [profiles : {NotAnArray}, isArray : {FALSE}, openRouterKey : BOOLEAN]

EndpointRequests ==
    [endpoint : {"enrich"}, body : EnrichBodies]
    \cup [endpoint : {"filter", "twitter"}, body : QualifierBodies]

InitEndpoints ==
    /\ request \in EndpointRequests
    /\ upstream \in { Cycle(seed, MaxEnrichItems) : seed \in AnswerSeeds }
    /\ llm \in { [k \in 1..(MAX_PROFILES_PER_REQUEST + 1) |-> c] :
                    c \in { ContentCall(<<"V">>), FailedCall("httpError") } }
    /\ response = Pending
    /\ verdicts = Pending
    /\ IdleResolver
    /\ IdleLibrary
    /\ IdleOrchestrator

ServePATCH ==
    /\ response = Pending
    /\ request.endpoint = "enrich"
    /\ response' = PATCH(request.body, upstream)
    /\ UNCHANGED <<request, upstream, resolverVars, qualifierVars, orchVars, libVars>>

ServeFilterPOST ==
    /\ response = Pending
    /\ request.endpoint = "filter"
    /\ response' = FilterPOST(request.body, llm)
    /\ UNCHANGED <<request, upstream, resolverVars, qualifierVars, orchVars, libVars>>

ServeTwitterPATCH ==
    /\ response = Pending
    /\ request.endpoint = "twitter"
    /\ response' = TwitterPATCH(request.body, llm)
    /\ UNCHANGED <<request, upstream, resolverVars, qualifierVars, orchVars, libVars>>

NextEndpoints ==
    \/ ServePATCH
    \/ ServeFilterPOST
    \/ ServeTwitterPATCH

SpecEndpoints == InitEndpoints /\ [][NextEndpoints]_vars

(***************************************************************************)
(* The page started on a checkpoint it finds in localStorage, whoever wrote *)
(* it: another tab, an earlier build of the page, or a run that ended long  *)
(* ago.  The checkpoint's cursor may lie within its list or beyond it.      *)
(***************************************************************************)
MaxStoredLeads == 23

StoredSizes == { 2, MaxStoredLeads }

\* The leads 1..n as the filter stage hands them over.
StoredPending(n) == [k \in 1..n |-> PendingLead(k)]

\* A checkpoint of stage "enriching" over n leads with cursor c: the leads before
\* the cursor as the endpoint settled them, the others pending.
StoredEnriching(n, c, up, at) ==
    LET pending == StoredPending(n)
        chunks == Chunks(pending, ENRICH_BATCH_SIZE)
        settled == Flatten([b \in 1..Len(chunks) |->
                               PATCH(EnrichRequest(chunks[b], "clado"), up).results])
        leads == [k \in 1..n |-> IF k <= c THEN settled[k] ELSE pending[k]]
        done == SubSeq(leads, 1, Min(c, n))
        ok == Len(SelectSeq(done, LAMBDA l : l.enrichment_status = "SUCCESS"))
    IN  SavedState(<<"post">>, [k \in 1..n |-> k], <<>>, leads,
                   Stats(n, n, n, ok, Len(done) - ok), "enriching", n, c, "clado", at)

\* A checkpoint of stage "filtering" over n profiles with cursor c.
StoredFiltering(n, c, calls, at) ==
    LET chunks == Chunks([k \in 1..Min(c, n) |-> k], FILTER_BATCH_SIZE)
        filtered == Flatten([b \in 1..Len(chunks) |->
                                FilterPOST(FilterRequest(chunks[b]), calls).results])
    IN  SavedState(<<"post">>, [k \in 1..n |-> k], filtered, <<>>,
                   Stats(n, n, 0, 0, 0), "filtering", c, 0, "undefined", at)

StoredCursors(n) == { 0, 1, n, n + 1, n + 3 }

InitStored ==
    /\ llm \in { Cycle(seed, MaxStoredLeads) : seed \in IcpSeeds }
    /\ upstream \in { Cycle(seed, MaxStoredLeads) : seed \in AnswerSeeds }
    /\ FreshPage
    /\ now \in 0..MaxClock
    /\ \E n \in StoredSizes : \E c \in StoredCursors(n) :
          \/ storage = StoredEnriching(n, c, upstream, 0)
          \/ storage = StoredFiltering(n, c, llm, 0)
    /\ run = NoRun
    /\ handlers = <<>>
    /\ sent = <<>>
    /\ writes = <<>>
    /\ IdleResolver
    /\ IdleLibrary
    /\ request = Pending
    /\ response = Pending
    /\ verdicts = Pending

NextStored ==
    \/ Tick
    \/ Reload
    \/ HandleDiscardSaved
    \/ HandleResume
    \/ DelayElapses
    \/ ResumeFilteringFails
    \/ ResumeFilterGroupSettles
    \/ ResumeEnrichingFails
    \/ ResumeEnrichGroupSettles

SpecStored == InitStored /\ [][NextStored]_vars

(***************************************************************************)
(* lib/location-filter.ts: the checks a lead passes before the model is    *)
(* asked, one call of one check.  A text is the sequence of its            *)
(* characters, so that String.prototype.includes searches for a substring  *)
(* and split cuts at separator characters.                                 *)
(***************************************************************************)
MaxLocationWords == 3

\* String.prototype.toLowerCase, on the letters LocationWords holds in upper case.
LowerChar(c) ==
    CASE c = "R" -> "r" [] c = "U" -> "u" [] c = "S" -> "s" [] c = "A" -> "a"
      [] c = "L" -> "l" [] c = "T" -> "t" [] c = "X" -> "x" [] c = "B" -> "b"
      [] c = "N" -> "n" [] OTHER -> c
LowerCase(s) == [k \in 1..Len(s) |-> LowerChar(s[k])]

\* String.prototype.includes
Includes(text, word) ==
    \E i \in 0..(Len(text) - Len(word)) : SubSeq(text, i + 1, i + Len(word)) = word

\* loc.split(/[\s,.-]+/): the maximal pieces that hold no separator.  The empty
\* pieces split also yields are in no list.
Separators == {" ", ",", ".", "-"}
SplitWords(loc) ==
    { SubSeq(loc, p[1], p[2]) : p \in
        { q \in (1..Len(loc)) \X (1..Len(loc)) :
            /\ q[1] <= q[2]
            /\ \A k \in q[1]..q[2] : loc[k] \notin Separators
            /\ q[1] = 1 \/ loc[q[1] - 1] \in Separators
            /\ q[2] = Len(loc) \/ loc[q[2] + 1] \in Separators } }

\* The keyword lists, cut down to the entries that occur in a text of
\* LocationTexts: no other entry of the lists is a substring, or for the
\* abbreviations a word, of any of these texts.
US_STATES == { <<"t", "e", "x", "a", "s">> }
US_STATE_ABBREV == { <<"t", "x">> }
US_CITIES == { <<"b", "o", "s", "t", "o", "n">> }
NON_US_INDICATORS == { <<"l", "o", "n", "d", "o", "n">>, <<"a", "u", "s", "t", "r", "a", "l", "i", "a">> }

LocationResult(isUS, confidence, reason) ==
    [isUS |-> isUS, confidence |-> confidence, reason |-> reason]

\* isUSLocation: the reason is the fixed part of the message.
isUSLocation(location) ==
    IF location = <<>> \/ Trim(location) = <<>>
    THEN LocationResult(FALSE, "low", "No location provided")
    ELSE LET loc == Trim(LowerCase(location))
         IN  IF loc \in { <<"r", "e", "m", "o", "t", "e">>,
                          <<"r", "e", "m", "o", "t", "e", " ", "w", "o", "r", "l", "d", "w", "i", "d", "e">>,
                          <<"f", "u", "l", "l", "y", " ", "r", "e", "m", "o", "t", "e">> }
             THEN LocationResult(FALSE, "high", "Remote location without US specification")
             ELSE IF /\ Includes(loc, <<"r", "e", "m", "o", "t", "e">>)
                     /\ \/ Includes(loc, <<"u", "s">>)
                        \/ Includes(loc, <<"u", "s", "a">>)
                        \/ Includes(loc, <<"u", "n", "i", "t", "e", "d", " ", "s", "t", "a", "t", "e", "s">>)
             THEN LocationResult(TRUE, "high", "Remote with US specification")
             ELSE IF \E nonUS \in NON_US_INDICATORS : Includes(loc, nonUS)
             THEN LocationResult(FALSE, "high", "Non-US location detected")
             ELSE IF \/ Includes(loc, <<"u", "n", "i", "t", "e", "d", " ", "s", "t", "a", "t", "e", "s">>)
                     \/ Includes(loc, <<"u", "s", "a">>)
                     \/ loc = <<"u", "s">>
             THEN LocationResult(TRUE, "high", "Explicit US mention")
             ELSE IF \E state \in US_STATES : Includes(loc, state)
             THEN LocationResult(TRUE, "high", "US state detected")
             ELSE IF \E word \in SplitWords(loc) : word \in US_STATE_ABBREV
             THEN LocationResult(TRUE, "high", "US state abbreviation detected")
             ELSE IF \E city \in US_CITIES : Includes(loc, city)
             THEN LocationResult(TRUE, "high", "US city detected")
             ELSE LocationResult(FALSE, "low", "Location cannot be determined as US")

\* The location texts tried: absent or empty, blank, and one to MaxLocationWords
\* words separated by a comma and a space, a single word also padded with spaces.
LocationWords ==
    { <<"R", "e", "m", "o", "t", "e">>,
      <<"U", "S", "A">>,
      <<"U", "S">>,
      <<"L", "o", "n", "d", "o", "n">>,
      <<"T", "e", "x", "a", "s">>,
      <<"T", "X">>,
      <<"B", "o", "s", "t", "o", "n">>,
      <<"A", "u", "s", "t", "r", "a", "l", "i", "a">>,
      <<"N", "a", "r", "n", "i", "a">> }
RECURSIVE JoinWords(_)
JoinWords(ws) ==
    IF Len(ws) = 1 THEN ws[1] ELSE ws[1] \o <<",", " ">> \o JoinWords(Tail(ws))
LocationTexts ==
    {<<>>, <<" ">>}
    \cup { <<" ">> \o w \o <<" ">> : w \in LocationWords }
    \cup { JoinWords(ws) :
                ws \in UNION { [1..n -> LocationWords] : n \in 1..MaxLocationWords } }

MIN_FOLLOWERS == 100
MAX_FOLLOWERS == 5000

\* A followers_count: a number, null, or undefined when the key is missing.
Number(v) == [type |-> "number", value |-> v]
Null == [type |-> "null"]
NoSuchKey == [type |-> "undefined"]

FollowerResult(isValid, count, reason) ==
    [isValid |-> isValid, followerCount |-> count, reason |-> reason]

\* checkFollowerCount.  public_metrics is absent, a string or an object; a string
\* stands as what JSON.parse makes of it: "empty" for the empty string, "invalid"
\* for a syntax error, "null" for the JSON null (reading a property of it throws
\* inside the try), "object" for an object.  A reason that cites the count holds it.
checkFollowerCountInclusive(publicMetrics) ==
    IF \/ publicMetrics.type = "undefined"
       \/ publicMetrics.type = "string" /\ publicMetrics.json = "empty"
    THEN FollowerResult(TRUE, Null, [text |-> "No follower data (skipped filter)"])
    ELSE IF publicMetrics.type = "string" /\ publicMetrics.json \in {"invalid", "null"}
    THEN FollowerResult(TRUE, Null, [text |-> "Invalid public_metrics (skipped filter)"])
    ELSE LET followerCount == publicMetrics.followers_count
             Cites(text) == [text |-> text, count |-> followerCount.value]
         IN  IF followerCount.type \in {"null", "undefined"}
             THEN FollowerResult(TRUE, Null,
                                 [text |-> "No followers_count in data (skipped filter)"])
             ELSE IF followerCount.value <= MIN_FOLLOWERS
             THEN FollowerResult(FALSE, followerCount, Cites("Too few followers"))
             ELSE IF followerCount.value > MAX_FOLLOWERS
             THEN FollowerResult(FALSE, followerCount, Cites("Too many followers"))
             ELSE FollowerResult(TRUE, followerCount, Cites("Valid follower count"))

checkFollowerCount(publicMetrics) ==
    IF \/ publicMetrics.type = "undefined"
       \/ publicMetrics.type = "string" /\ publicMetrics.json = "empty"
    THEN FollowerResult(TRUE, Null, [text |-> "No follower data (skipped filter)"])
    ELSE IF publicMetrics.type = "string" /\ publicMetrics.json \in {"invalid", "null"}
    THEN FollowerResult(TRUE, Null, [text |-> "Invalid public_metrics (skipped filter)"])
    ELSE LET followerCount == publicMetrics.followers_count
             Cites(text) == [text |-> text, count |-> followerCount.value]
         IN  IF followerCount.type \in {"null", "undefined"}
             THEN FollowerResult(TRUE, Null,
                                 [text |-> "No followers_count in data (skipped filter)"])
             ELSE IF followerCount.value < MIN_FOLLOWERS
             THEN FollowerResult(FALSE, followerCount, Cites("Too few followers"))
             ELSE IF followerCount.value > MAX_FOLLOWERS
             THEN FollowerResult(FALSE, followerCount, Cites("Too many followers"))
             ELSE FollowerResult(TRUE, followerCount, Cites("Valid follower count"))

\* The public_metrics tried: the counts around both limits.
FollowerCounts ==
    {0, MIN_FOLLOWERS - 1, MIN_FOLLOWERS, MIN_FOLLOWERS + 1,
     MAX_FOLLOWERS - 1, MAX_FOLLOWERS, MAX_FOLLOWERS + 1}
CountValues == { Number(v) : v \in FollowerCounts } \cup {Null, NoSuchKey}
PublicMetrics ==
    {[type |-> "undefined"]}
    \cup { [type |-> "string", json |-> j] : j \in {"empty", "invalid", "null"} }
    \cup { [type |-> "string", json |-> "object", followers_count |-> v] : v \in CountValues }
    \cup { [type |-> "object", followers_count |-> v] : v \in CountValues }

LeadCheckCalls ==
    { [fn |-> "isUSLocation", location |-> t] : t \in LocationTexts }
    \cup { [fn |-> "checkFollowerCount", publicMetrics |-> m] : m \in PublicMetrics }

InitLeadChecks ==
    /\ call \in LeadCheckCalls
    /\ returned = Pending
    /\ IdleResolver
    /\ IdlePatch
    /\ IdleQualifier
    /\ IdleOrchestrator

CallIsUSLocation ==
    /\ returned = Pending
    /\ call.fn = "isUSLocation"
    /\ returned' = isUSLocation(call.location)
    /\ UNCHANGED <<call, resolverVars, patchVars, qualifierVars, orchVars>>

CallCheckFollowerCount ==
    /\ returned = Pending
    /\ call.fn = "checkFollowerCount"
    /\ returned' = checkFollowerCount(call.publicMetrics)
    /\ UNCHANGED <<call, resolverVars, patchVars, qualifierVars, orchVars>>

NextLeadChecks ==
    \/ CallIsUSLocation
    \/ CallCheckFollowerCount

SpecLeadChecks == InitLeadChecks /\ [][NextLeadChecks]_vars

(***************************************************************************)
(* lib/twitter-verifier.ts: parseCSV and convertToCSV, with the parts of   *)
(* the papaparse library they call (Papa.parse with header and             *)
(* skipEmptyLines, Papa.unparse with quotes), modelled from the library's  *)
(* documented behaviour.  A text is a sequence of symbols: the special     *)
(* characters below, a space, a comma, and letters or words that stand for *)
(* themselves.  The delimiter is always the comma: the texts hold none of  *)
(* the other delimiters Papa.parse would consider (tab, |, ;).             *)
(***************************************************************************)
DQ == "dq"      \* the double quote
LF == "lf"      \* \n
CR == "cr"      \* \r

\* String.prototype.trim: spaces and line ends are white space.
TrimWhite(s) ==
    LET inked == { k \in 1..Len(s) : s[k] \notin {" ", LF, CR} }
    IN  IF inked = {} THEN <<>> ELSE SubSeq(s, MinOf(inked), MaxOf(inked))

\* The one element of a set of one: Only({ e(x) : x \in {v} }) is e(v), with v
\* worked out once.
Only(S) == CHOOSE x \in S : TRUE

\* Array.prototype.join, from part k on.
RECURSIVE JoinFrom(_, _, _)
JoinFrom(parts, sep, k) ==
    IF k > Len(parts) THEN <<>>
    ELSE IF k = Len(parts) THEN parts[k]
    ELSE parts[k] \o sep \o JoinFrom(parts, sep, k + 1)
Join(parts, sep) == Only({ JoinFrom(p, sep, 1) : p \in {parts} })

StartsWith(text, i, w) == i + Len(w) - 1 <= Len(text) /\ SubSeq(text, i, i + Len(w) - 1) = w

\* papaparse guessLineEndings: the quoted stretches (from one quote to the
\* next) are removed; "\n" when there is no "\r" or a "\n" comes before the
\* first "\r"; else "\r\n" when at least half of the pieces split at "\r"
\* start with "\n"; else "\r".
guessLineEndings(text) ==
    LET quotes == { k \in 1..Len(text) : text[k] = DQ }
        QuotesUpTo(k) == Cardinality({ q \in quotes : q <= k })
        bare == { k \in 1..Len(text) : text[k] # DQ /\ QuotesUpTo(k) % 2 = 0 }
        crs == { k \in bare : text[k] = CR }
        lfs == { k \in bare : text[k] = LF }
        crlfs == { k \in crs : k + 1 \in lfs }
    IN  IF crs = {} \/ (lfs # {} /\ MinOf(lfs) < MinOf(crs)) THEN <<LF>>
        ELSE IF 2 * Cardinality(crlfs) >= Cardinality(crs) + 1 THEN <<CR, LF>>
        ELSE <<CR>>

\* text.indexOf(quoteChar, from): the first quote from "from" on, Len(text) + 1
\* when there is none.
FirstQuote(text, from) ==
    IF \E j \in from..Len(text) : text[j] = DQ
    THEN CHOOSE j \in from..Len(text) :
             text[j] = DQ /\ \A k \in from..(j - 1) : text[k] # DQ
    ELSE Len(text) + 1

\* The first comma or line end from "from" on, Len(text) + 1 when there is none.
AtStop(text, newline, j) == text[j] = "," \/ StartsWith(text, j, newline)
FirstStop(text, newline, from) ==
    IF \E j \in from..Len(text) : AtStop(text, newline, j)
    THEN CHOOSE j \in from..Len(text) :
             AtStop(text, newline, j) /\ \A k \in from..(j - 1) : ~AtStop(text, newline, k)
    ELSE Len(text) + 1

\* The quote that closes the quoted field whose text starts at "from": the
\* first quote that is not followed by another one, two quotes in a row being
\* an escaped quote.  Len(text) + 1 when the field is never closed.
RECURSIVE ClosingQuote(_, _)
ClosingQuote(text, from) ==
    LET q == FirstQuote(text, from)
    IN  IF q < Len(text) /\ text[q + 1] = DQ THEN ClosingQuote(text, q + 2) ELSE q

\* value.replace(/""/g, '"')
RECURSIVE UnescapeFrom(_, _)
UnescapeFrom(str, k) ==
    IF k > Len(str) THEN <<>>
    ELSE IF k < Len(str) /\ str[k] = DQ /\ str[k + 1] = DQ
    THEN <<DQ>> \o UnescapeFrom(str, k + 2)
    ELSE <<str[k]>> \o UnescapeFrom(str, k + 1)
UnescapeQuotes(str) == Only({ UnescapeFrom(v, 1) : v \in {str} })

\* papaparse Parser.parse, one field, starting at i: where it stops (at a comma,
\* at a line end, or Len(text) + 1) and its value.  A quote opens a quoted field
\* only as the first character of a field; the field then runs to its closing
\* quote, and what stands between that quote and the next comma or line end
\* (only spaces, in the texts parsed here) is skipped.  Any other field runs
\* to the next comma or line end, quotes in it being ordinary characters.
Field(text, newline, i) ==
    LET quoted == i <= Len(text) /\ text[i] = DQ
        Quoted(close) ==
            [stop |-> FirstStop(text, newline, close + 1),
             value |-> UnescapeQuotes(SubSeq(text, i + 1, close - 1))]
        Unquoted(stop) == [stop |-> stop, value |-> SubSeq(text, i, stop - 1)]
    IN  IF quoted THEN Only({ Quoted(close) : close \in {ClosingQuote(text, i + 1)} })
        ELSE Only({ Unquoted(stop) : stop \in {FirstStop(text, newline, i)} })

\* The fields of one row, from i on, and where the row stops.
RECURSIVE ScanRow(_, _, _, _)
ScanRow(text, newline, i, row) ==
    Only({ IF f.stop <= Len(text) /\ text[f.stop] = ","
           THEN ScanRow(text, newline, f.stop + 1, Append(row, f.value))
           ELSE [stop |-> f.stop, row |-> Append(row, f.value)] :
           f \in {Field(text, newline, i)} })

\* The rows of the text, each the sequence of its fields.
RECURSIVE ScanRows(_, _, _, _)
ScanRows(text, newline, i, rows) ==
    Only({ IF r.stop > Len(text) THEN Append(rows, r.row)
           ELSE ScanRows(text, newline, r.stop + Len(newline), Append(rows, r.row)) :
           r \in {ScanRow(text, newline, i, <<>>)} })

\* A JavaScript object: its entries <<key, value>> in insertion order.
Has(obj, key) == \E k \in 1..Len(obj) : obj[k][1] = key
Get(obj, key) == obj[CHOOSE k \in 1..Len(obj) : obj[k][1] = key][2]
Put(obj, key, value) ==
    Only({ IF Has(o, key)
           THEN [k \in 1..Len(o) |-> IF o[k][1] = key THEN <<key, value>> ELSE o[k]]
           ELSE Append(o, <<key, value>>) : o \in {obj} })
Keys(obj) == [k \in 1..Len(obj) |-> obj[k][1]]

\* Papa.parse(csvContent, {header: true, skipEmptyLines: true, transformHeader:
\* trim}): the lines that are one empty field are dropped, the first row left
\* gives the fields, every other row an object of the fields it has a value
\* for; the values beyond the fields go to __parsed_extra.
PapaParse(csvContent) ==
    LET IsEmptyLine(row) == row = << <<>> >>
        Object(fields, row) ==
            LET n == Min(Len(row), Len(fields))
                named == [k \in 1..n |-> <<fields[k], row[k]>>]
            IN  IF Len(row) > Len(fields)
                THEN Append(named, <<<<"__parsed_extra">>, <<"array">>>>)
                ELSE named
        Result(rows, fields) ==
            [fields |-> fields,
             data |-> IF rows = <<>> THEN <<>>
                      ELSE [k \in 1..(Len(rows) - 1) |-> Object(fields, rows[k + 1])]]
        Header(rows) ==
            IF rows = <<>> THEN <<>> ELSE [k \in 1..Len(rows[1]) |-> TrimWhite(rows[1][k])]
    IN  Only({ Only({ Result(rows, fields) : fields \in {Header(rows)} }) :
               rows \in {SelectSeq(ScanRows(csvContent, guessLineEndings(csvContent), 1, <<>>),
                                   LAMBDA row : ~IsEmptyLine(row))} })

\* key.toLowerCase(), symbol by symbol.
KeyLower(key) == [k \in 1..Len(key) |-> ToLowerCase(key[k])]
ColumnOf(key) ==
    IF KeyLower(key) \in {<<"name">>, <<"description">>, <<"location">>}
    THEN KeyLower(key)[1] ELSE "other"

\* parseCSV, the loop over the entries of one row: the trimmed name and
\* description ("" when no column gives one) and the trimmed location (""
\* for undefined); of several columns with the same lowercased key the last counts.
ExtractFieldsNoTrim(row) ==
    LET Last(column) ==
            LET at == { k \in 1..Len(row) : ColumnOf(row[k][1]) = column }
            IN  IF at = {} THEN <<>> ELSE row[MaxOf(at)][2]
    IN  [name |-> Last("name"), description |-> Last("description"),
         location |-> Last("location")]
ExtractFields(row) ==
    LET Last(column) ==
            LET at == { k \in 1..Len(row) : ColumnOf(row[k][1]) = column }
            IN  IF at = {} THEN <<>> ELSE TrimWhite(row[MaxOf(at)][2])
    IN  [name |-> Last("name"), description |-> Last("description"),
         location |-> Last("location")]

\* The lead parseCSV makes of a row it keeps: name, description, the location
\* when there is one, then every other column under its own key.
RECURSIVE CopyColumns(_, _, _)
CopyColumns(lead, entries, k) ==
    IF k = 0 THEN lead
    ELSE Put(CopyColumns(lead, entries, k - 1), entries[k][1], entries[k][2])
LeadOf(row) ==
    LET f == ExtractFields(row)
        required == << <<<<"name">>, f.name>>, <<<<"description">>, f.description>> >>
        located == IF f.location # <<>> THEN Append(required, <<<<"location">>, f.location>>)
                   ELSE required
    IN  Only({ CopyColumns(located, others, Len(others)) :
               others \in {SelectSeq(row, LAMBDA e : ColumnOf(e[1]) = "other")} })

CsvThrown(msg) == [kind |-> "throw", message |-> msg]

\* parseCSV.  What it returns is leads; the counts are what it logs.
parseCSV(csvContent) ==
    LET Kept(f) == f.name # <<>> /\ f.description # <<>>
        Count(found, P(_)) == Cardinality({ k \in 1..Len(found) : P(found[k]) })
        HasColumn(parsed, column) ==
            \E h \in 1..Len(parsed.fields) : ColumnOf(parsed.fields[h]) = column
        Leads(parsed, found) ==
            LET kept == SelectSeq(parsed.data, LAMBDA row : Kept(ExtractFields(row)))
            IN  [kind |-> "return",
                 leads |-> [k \in 1..Len(kept) |-> LeadOf(kept[k])],
                 droppedCount |-> Len(parsed.data) - Len(kept),
                 dropReasons |->
                     [missingName |->
                          Count(found, LAMBDA f : f.name = <<>> /\ f.description # <<>>),
                      missingDescription |->
                          Count(found, LAMBDA f : f.name # <<>> /\ f.description = <<>>),
                      missingBoth |->
                          Count(found, LAMBDA f : f.name = <<>> /\ f.description = <<>>)]]
        Parsed(parsed) ==
            IF parsed.data = <<>>
            THEN CsvThrown("CSV must have at least a header row and one data row")
            ELSE IF ~HasColumn(parsed, "name") \/ ~HasColumn(parsed, "description")
            THEN CsvThrown("CSV must have 'name' and 'description' columns")
            ELSE Only({ Leads(parsed, found) :
                        found \in {[k \in 1..Len(parsed.data) |->
                                       ExtractFields(parsed.data[k])]} })
    IN  Only({ Parsed(parsed) : parsed \in {PapaParse(csvContent)} })

\* papaparse safe() with quotes: true: every defined value is quoted, its quotes doubled.
\* str.replace(/"/g, '""')
EscapeQuotes(str) ==
    Join([k \in 1..Len(str) |-> IF str[k] = DQ THEN <<DQ, DQ>> ELSE <<str[k]>>], <<>>)
Safe(str) == <<DQ>> \o EscapeQuotes(str) \o <<DQ>>

\* Papa.unparse(data, {quotes: true, header: true}) of an array of objects: the
\* columns are the keys of the first object; a row lacking a column leaves the
\* field empty and unquoted; the lines are joined by "\r\n".
PapaUnparse(data) ==
    LET Line(cells) == Join(cells, <<",">>)
        Cell(row, key) == IF Has(row, key) THEN Safe(Get(row, key)) ELSE <<>>
        Lines(d, fields) ==
            <<Line([c \in 1..Len(fields) |-> Safe(fields[c])])>> \o
            [r \in 1..Len(d) |-> Line([c \in 1..Len(fields) |-> Cell(d[r], fields[c])])]
    IN  Only({ Join(Lines(d, Keys(d[1])), <<CR, LF>>) : d \in {data} })

\* convertToCSV: each lead without its filter_result and public_metrics, then
\* public_metrics as a string and the columns of the filter result.  The leads
\* exported here carry no public_metrics and no extracted_info.
ExportColumns(filter_result) ==
    << <<<<"public_metrics">>, <<>>>>,
       <<<<"decision">>, filter_result.decision>>,
       <<<<"reasoning">>, filter_result.reasoning>>,
       <<<<"confidence">>, filter_result.confidence>>,
       <<<<"extracted_company">>, <<>>>>,
       <<<<"extracted_role">>, <<>>>>,
       <<<<"estimated_company_size">>, <<>>>>,
       <<<<"estimated_funding">>, <<>>>>,
       <<<<"extracted_location">>, <<>>>> >>
convertToCSV(leads) ==
    LET Flat(lead) ==
            CopyColumns(SelectSeq(lead.data, LAMBDA e : e[1] # <<"public_metrics">>),
                        ExportColumns(lead.filter_result), 9)
    IN  IF Len(leads) = 0 THEN <<>>
        ELSE PapaUnparse([k \in 1..Len(leads) |-> Flat(leads[k])])

\* The files parsed: a header line and up to MaxCsvRows lines below it, each a
\* blank line or one cell per column, a cell written bare or in quotes.
MaxCsvRows == 2

Bare(value) == [value |-> value, quoted |-> FALSE]
InQuotes(value) == [value |-> value, quoted |-> TRUE]
CsvCells(column) ==
    CASE column = <<"name">> ->
             {Bare(<<>>), Bare(<<" ">>), Bare(<<"Ann">>), InQuotes(<<"Lee", ",", " ", "Bo">>)}
      [] column = <<"description">> ->
             {Bare(<<>>), Bare(<<"CTO">>), InQuotes(<<"said", " ", DQ, "hi", DQ, LF, "twice">>)}
      [] column = <<"location">> ->
             {Bare(<<>>), InQuotes(<<"SF", ",", " ", "CA">>)}
CsvHeaders ==
    { << <<"name">> >>, << <<"name">>, <<"description">> >>,
      << <<"name">>, <<"description">>, <<"location">> >> }
CsvLines(header) ==
    {<<>>} \cup
    { line \in [1..Len(header) -> UNION { CsvCells(header[c]) : c \in 1..Len(header) }] :
          \A c \in 1..Len(header) : line[c] \in CsvCells(header[c]) }
CsvTables ==
    { [header |-> h, rows |-> rows] : h \in CsvHeaders, rows \in {<<>>} } \cup
    UNION { { [header |-> h, rows |-> rows] :
                 rows \in UNION { [1..n -> CsvLines(h)] : n \in 1..MaxCsvRows } } :
            h \in CsvHeaders }

\* The text of a table, its lines joined by "\n".
CsvText(table) ==
    LET CellText(cell) == IF cell.quoted THEN Safe(cell.value) ELSE cell.value
        Line(cells) == Join([c \in 1..Len(cells) |-> CellText(cells[c])], <<",">>)
    IN  Join(<<Join(table.header, <<",">>)>> \o
                 [r \in 1..Len(table.rows) |-> Line(table.rows[r])], <<LF>>)

NoTable == [header |-> <<>>, rows |-> <<>>]
ParseCall(text, table, exported, again) ==
    [fn |-> "parseCSV", csvContent |-> text, table |-> table, exported |-> exported,
     reparse |-> again]

InitCsv ==
    /\ call \in { ParseCall(CsvText(table), table, <<>>, FALSE) : table \in CsvTables }
    /\ returned = Pending
    /\ IdleResolver
    /\ IdlePatch
    /\ IdleQualifier
    /\ IdleOrchestrator

CallParseCSV ==
    /\ returned = Pending
    /\ call.fn = "parseCSV"
    /\ returned' = parseCSV(call.csvContent)
    /\ UNCHANGED <<call, resolverVars, patchVars, qualifierVars, orchVars>>

\* The leads parsed get their filter results, as the round-trip test attaches
\* them; the page exports a list only when it holds a lead.
AddFilterResults ==
    /\ returned # Pending
    /\ call.fn = "parseCSV"
    /\ ~call.reparse
    /\ returned.kind = "return"
    /\ Len(returned.leads) > 0
    /\ call' = [fn |-> "convertToCSV",
                leads |-> [k \in 1..Len(returned.leads) |->
                              [data |-> returned.leads[k],
                               filter_result |-> [decision |-> <<"ACCEPT">>,
                                                  reasoning |-> <<"Test">>,
                                                  confidence |-> <<"HIGH">>]]]]
    /\ returned' = Pending
    /\ UNCHANGED <<resolverVars, patchVars, qualifierVars, orchVars>>

CallConvertToCSV ==
    /\ returned = Pending
    /\ call.fn = "convertToCSV"
    /\ returned' = [kind |-> "csv", text |-> convertToCSV(call.leads)]
    /\ UNCHANGED <<call, resolverVars, patchVars, qualifierVars, orchVars>>

\* The exported text is parsed again.
Reparse ==
    /\ returned # Pending
    /\ call.fn = "convertToCSV"
    /\ call' = ParseCall(returned.text, NoTable, call.leads, TRUE)
    /\ returned' = Pending
    /\ UNCHANGED <<resolverVars, patchVars, qualifierVars, orchVars>>

NextCsv ==
    \/ CallParseCSV
    \/ AddFilterResults
    \/ CallConvertToCSV
    \/ Reparse

SpecCsv == InitCsv /\ [][NextCsv]_vars

(***************************************************************************)
(* The page's handlers when the operator clicks while a handler is still   *)
(* running: every click the rendered page accepts starts its handler, and  *)
(* the handlers in progress take their steps in any order.  The verdicts   *)
(* and the provider answers play no part here: every profile is accepted   *)
(* and every lead is enriched.                                             *)
(***************************************************************************)
MaxHandlers == 2          \* handlers in progress at once

OverlapProfiles == 2 * FILTER_BATCH_SIZE * FILTER_PARALLEL_BATCHES + 1

OverlapLeads(n, enrichedCount) ==
    [k \in 1..n |-> [profile |-> k,
                     enrichment_status |-> IF k <= enrichedCount THEN "SUCCESS"
                                           ELSE "PENDING"]]

\* saveProgress({ urls, allProfiles, filteredResults, results, stats, stage,
\*                filterIndex, enrichIndex, enrichmentProvider })
OverlapSaved(stg, n, fIdx, leads, eIdx) ==
    SavedState(<<"post">>, [k \in 1..n |-> k], [k \in 1..fIdx |-> k], leads,
               NullStats, stg, fIdx, eIdx, "clado", 0)

\* What localStorage may hold when the page is loaded: nothing, or the
\* checkpoint an interrupted run wrote after its first group.
OverlapStored ==
    { NoCheckpoint,
      OverlapSaved("filtering", OverlapProfiles,
                   FILTER_BATCH_SIZE * FILTER_PARALLEL_BATCHES, <<>>, 0),
      OverlapSaved("enriching", OverlapProfiles, OverlapProfiles,
                   OverlapLeads(OverlapProfiles,
                                ENRICH_BATCH_SIZE * ENRICH_PARALLEL_BATCHES),
                   ENRICH_BATCH_SIZE * ENRICH_PARALLEL_BATCHES) }

InitOverlap ==
    /\ storage \in OverlapStored
    /\ now = 0
    /\ postUrls = <<>>
    /\ processing = FALSE
    /\ enriching = FALSE
    /\ stage = "idle"
    /\ results = <<>>
    /\ stats = NullStats
    /\ error = ""
    /\ enrichmentProvider = "clado"
    /\ savedState = MountEffect(storage, now)
    /\ run = NoRun
    /\ handlers = <<>>
    /\ sent = <<>>
    /\ writes = <<>>
    /\ IdleResolver
    /\ IdlePatch
    /\ IdleQualifier
    /\ IdleLibrary

BatchSizeOf(name) ==
    IF name \in {"handleSubmit", "resumeFiltering"}
    THEN FILTER_BATCH_SIZE ELSE ENRICH_BATCH_SIZE

\* The locals of a handler in progress: the list it works on (total items, the
\* leads when it enriches), where it started and the batch index of its loop.
Handler(name, pc, total, leads, startIndex) ==
    [name |-> name, pc |-> pc, total |-> total, leads |-> leads,
     startIndex |-> startIndex, i |-> 0,
     nBatches |-> (total - startIndex + BatchSizeOf(name) - 1) \div BatchSizeOf(name)]

Filters(h) == h.name \in {"handleSubmit", "resumeFiltering"}
Resumes(h) == h.name \in {"resumeFiltering", "resumeEnriching"}
MoreGroupsOf(h) == h.i + ParallelOf(h.name) < h.nBatches
ProcessedOf(h) ==
    h.startIndex + Processed(h.i, ParallelOf(h.name), BatchSizeOf(h.name), h.nBatches,
                             h.total - h.startIndex)

Without(seq, k) == SubSeq(seq, 1, k - 1) \o SubSeq(seq, k + 1, Len(seq))

\* "Filtering complete" of handleSubmit and resumeFiltering
FilteringCompletes(total) ==
    LET pendingLeads == OverlapLeads(total, 0)
        completeSaved == OverlapSaved("complete", total, total, pendingLeads, 0)
    IN  /\ results' = pendingLeads
        /\ stage' = "complete"
        /\ processing' = FALSE
        /\ storage' = completeSaved
        /\ writes' = <<completeSaved>>

\* "Enrichment complete" of handleEnrich and resumeEnriching
EnrichmentCompletes(total) ==
    /\ results' = OverlapLeads(total, total)
    /\ stage' = "complete"
    /\ enriching' = FALSE
    /\ storage' = clearProgress(storage)
    /\ writes' = <<>>

\* The click on "Fetch and filter": the button is disabled while processing
SubmitClicked ==
    /\ postUrls # <<>>
    /\ ~processing
    /\ Len(handlers) < MaxHandlers
    /\ processing' = TRUE
    /\ error' = ""
    /\ results' = <<>>
    /\ stats' = NullStats
    /\ stage' = "fetching"
    /\ handlers' = Append(handlers, Handler("handleSubmit", "fetch", 0, <<>>, 0))
    /\ writes' = <<>>
    /\ UNCHANGED <<postUrls, enriching, savedState, enrichmentProvider, storage, now, run,
                   sent, serverVars>>

\* The click on "Enrich": the button is rendered while a lead is PENDING and
\* no enrichment is running
EnrichClicked ==
    /\ EnrichPanelShown
    /\ Len(handlers) < MaxHandlers
    /\ enriching' = TRUE
    /\ error' = ""
    /\ handlers' = Append(handlers,
                          Handler("handleEnrich", "group", Len(results), results, 0))
    /\ writes' = <<>>
    /\ UNCHANGED <<postUrls, processing, stage, results, stats, savedState,
                   enrichmentProvider, storage, now, run, sent, serverVars>>

\* The click on "Resume" in the banner, which is rendered while savedState is set
ResumeClicked ==
    /\ savedState # NoCheckpoint
    /\ Len(handlers) < MaxHandlers
    /\ postUrls' = savedState.urls
    /\ stats' = savedState.stats
    /\ error' = ""
    /\ enrichmentProvider' = IF savedState.enrichmentProvider # "undefined"
                             THEN savedState.enrichmentProvider ELSE enrichmentProvider
    /\ IF savedState.stage = "filtering"
       THEN LET h == Handler("resumeFiltering", "group", Len(savedState.allProfiles),
                             <<>>, savedState.filterIndex)
            IN  /\ enriching' = enriching
                /\ IF h.nBatches > 0
                   THEN /\ processing' = TRUE
                        /\ stage' = "filtering"
                        /\ handlers' = Append(handlers, h)
                        /\ writes' = <<>>
                        /\ UNCHANGED <<results, storage, savedState>>
                   ELSE /\ FilteringCompletes(h.total)
                        /\ savedState' = NoCheckpoint
                        /\ handlers' = handlers
       ELSE LET h == Handler("resumeEnriching", "group", Len(savedState.results),
                             savedState.results, savedState.enrichIndex)
            IN  /\ processing' = processing
                /\ IF h.nBatches > 0
                   THEN /\ results' = savedState.results
                        /\ enriching' = TRUE
                        /\ stage' = "enriching"
                        /\ handlers' = Append(handlers, h)
                        /\ writes' = <<>>
                        /\ UNCHANGED <<storage, savedState>>
                   ELSE /\ EnrichmentCompletes(h.total)
                        /\ savedState' = NoCheckpoint
                        /\ handlers' = handlers
    /\ UNCHANGED <<now, run, sent, serverVars>>

\* What handler k awaits has arrived: the fetch responses, the responses of its
\* group of requests, or the end of the delay between two groups.
HandlerSettles(k) ==
    LET h == handlers[k]
        processed == ProcessedOf(h)
    IN  /\ IF h.pc = "fetch"
           THEN /\ stage' = "filtering"
                /\ handlers' = [handlers EXCEPT ![k] =
                       Handler("handleSubmit", "group", OverlapProfiles, <<>>, 0)]
                /\ writes' = <<>>
                /\ UNCHANGED <<results, processing, enriching, storage, savedState>>
           ELSE IF h.pc = "delay"
           THEN /\ handlers' = [handlers EXCEPT ![k] =
                       [h EXCEPT !.pc = "group", !.i = @ + ParallelOf(h.name)]]
                /\ writes' = <<>>
                /\ UNCHANGED <<results, stage, processing, enriching, storage, savedState>>
           ELSE IF MoreGroupsOf(h)
           THEN LET groupSaved ==
                        IF Filters(h)
                        THEN OverlapSaved("filtering", h.total, processed, <<>>, 0)
                        ELSE OverlapSaved("enriching", h.total, h.total,
                                          OverlapLeads(h.total, processed), processed)
                IN  /\ storage' = groupSaved
                    /\ writes' = <<groupSaved>>
                    /\ results' = IF Filters(h) THEN results ELSE groupSaved.results
                    /\ handlers' = [handlers EXCEPT ![k] = [h EXCEPT !.pc = "delay"]]
                    /\ UNCHANGED <<stage, processing, enriching, savedState>>
           ELSE /\ IF Filters(h)
                   THEN FilteringCompletes(h.total) /\ enriching' = enriching
                   ELSE EnrichmentCompletes(h.total) /\ processing' = processing
                /\ savedState' = IF Resumes(h) THEN NoCheckpoint ELSE savedState
                /\ handlers' = Without(handlers, k)
        /\ UNCHANGED <<postUrls, stats, error, enrichmentProvider, now, run, sent,
                       serverVars>>

\* A request handler k awaits fails: its catch block, then its end.
HandlerFails(k) ==
    LET h == handlers[k]
    IN  /\ h.pc \in {"fetch", "group"}
        /\ error' = "Failed"
        /\ stage' = IF h.name = "handleSubmit" THEN "idle" ELSE stage
        /\ processing' = IF Filters(h) THEN FALSE ELSE processing
        /\ enriching' = IF Filters(h) THEN enriching ELSE FALSE
        /\ savedState' = IF Resumes(h) THEN NoCheckpoint ELSE savedState
        /\ handlers' = Without(handlers, k)
        /\ writes' = <<>>
        /\ UNCHANGED <<postUrls, results, stats, enrichmentProvider, storage, now, run,
                       sent, serverVars>>

SomeHandlerSettles == \E k \in 1..Len(handlers) : HandlerSettles(k)
SomeHandlerFails == \E k \in 1..Len(handlers) : HandlerFails(k)

NextOverlap ==
    \/ TypeUrls
    \/ HandleDiscardSaved
    \/ SubmitClicked
    \/ EnrichClicked
    \/ ResumeClicked
    \/ SomeHandlerSettles
    \/ SomeHandlerFails

SpecOverlap == InitOverlap /\ [][NextOverlap]_vars

(***************************************************************************)
(* The concurrent calls of a group, settling one by one in any order: the  *)
(* leads of a batch in the enrich endpoint (part_006), the profiles of a   *)
(* batch in the filter endpoint, the leads of a Twitter batch request, and *)
(* the batch requests of a group in handleSubmit and handleEnrich.  call   *)
(* holds the locals of the function that awaits the group.  The delay      *)
(* between two groups is not a step of its own here.                       *)
(***************************************************************************)
MaxGroupLeads == 6        \* leads in the PATCH request whose calls settle one by one

PendingSlot == [status |-> "pending", value |-> <<>>, success |-> 0, failed |-> 0]
RejectedCall == [status |-> "rejected", value |-> <<>>, success |-> 0, failed |-> 0]
Fulfilled(value) == [status |-> "fulfilled", value |-> value, success |-> 0, failed |-> 0]

\* The functions that await Promise.all, which rejects with the first rejection.
IsClient(fn) == fn \in {"handleSubmit", "handleEnrich"}

\* How many calls are started together
GroupSizeOf(fn, n) ==
    CASE fn = "PATCH" -> ENRICHMENT_BATCH_SIZE
      [] fn = "filterPOST" -> FILTER_ROUTE_BATCH_SIZE
      [] fn = "twitterPATCH" -> n
      [] fn = "handleSubmit" -> FILTER_PARALLEL_BATCHES
      [] fn = "handleEnrich" -> ENRICH_PARALLEL_BATCHES

PendingSlots(n) == [k \in 1..n |-> PendingSlot]

GroupCall(fn, items, prov) ==
    [fn |-> fn, items |-> items, prov |-> prov, i |-> 0,
     slots |-> PendingSlots(Min(GroupSizeOf(fn, Len(items)), Len(items))),
     done |-> <<>>, acc |-> <<>>, success |-> 0, failed |-> 0, checkpoint |-> <<>>]

\* The promise of call k of the group in flight, as it settles
Outcome(c, k) ==
    LET item == c.items[c.i + k]
    IN  CASE c.fn = "PATCH" -> EnrichLead(item, c.prov, upstream)
          [] c.fn = "filterPOST" ->
                LET r == filterByICP(llm[item])
                IN  IF r.threw THEN RejectedCall
                    ELSE Fulfilled([profile |-> item, icp_result |-> r.verdict])
          [] c.fn = "twitterPATCH" ->
                LET r == analyzeLead(llm[item])
                IN  IF r.threw THEN RejectedCall ELSE Fulfilled(r.verdict)
          [] c.fn = "handleSubmit" ->
                LET filterResponse == FilterPOST(FilterRequest(item), llm)
                IN  IF filterResponse.ok THEN Fulfilled(filterResponse.results)
                    ELSE RejectedCall
          [] c.fn = "handleEnrich" ->
                LET data == PATCH(EnrichRequest(item, c.prov), upstream)
                IN  IF data.ok THEN Fulfilled(data) ELSE RejectedCall

\* A request of the page can also fail on its way: fetch rejects.
Outcomes(c, k) ==
    IF IsClient(c.fn) THEN {Outcome(c, k), RejectedCall} ELSE {Outcome(c, k)}

\* The mutant of AllSettled that is content with one settled call.
SomeSettled(slots) == \E k \in 1..Len(slots) : slots[k].status # "pending"

\* Promise.allSettled and Promise.all resolve when every promise has settled.
AllSettled(slots) == \A k \in 1..Len(slots) : slots[k].status # "pending"

\* The order in which the calls of the group in flight have settled
SettleOrder(c) == [j \in 1..(Len(c.done) - c.i) |-> c.done[c.i + j] - c.i]

\* The mutant of SettledArray that hands the results back as they came in.
SettledArrayAsCompleted(slots, order) == [j \in 1..Len(order) |-> slots[order[j]]]

\* The array Promise.allSettled and Promise.all resolve to: one element per
\* promise, at the index of the promise.
SettledArray(slots, order) == slots

ValuesOf(settled) ==
    LET fulfilled == SelectSeq(settled, LAMBDA r : r.status = "fulfilled")
    IN  [k \in 1..Len(fulfilled) |-> fulfilled[k].value]

\* What the code after the await appends to its results list
Gathered(fn, settled, group) ==
    CASE fn = "PATCH" -> ValuesOf(settled)
      [] fn = "filterPOST" -> ValuesOf(settled)
      [] fn = "twitterPATCH" ->
            [index \in 1..Len(group) |->
                IF index <= Len(settled) /\ settled[index].status = "fulfilled"
                THEN [profile |-> group[index], icp_result |-> settled[index].value]
                ELSE [profile |-> group[index], icp_result |-> FallbackVerdict("Error")]]
      [] fn = "handleSubmit" -> Flatten(ValuesOf(settled))
      [] fn = "handleEnrich" ->
            Flatten([b \in 1..Len(ValuesOf(settled)) |-> ValuesOf(settled)[b].results])

GroupLlm == Cycle(<<ContentCall(<<"V">>), ContentCall(<<"fence", "V", "fence">>),
                    FailedCall("httpError"), ContentCall(<<"t">>)>>, MaxProfiles)
GroupUpstream ==
    Cycle(<<AnswerWithEmail, AnswerPhoneOnly, AnswerError, AnswerPersonalOrEmpty>>,
          MaxProfiles)

GroupCalls ==
    { GroupCall("PATCH", [k \in 1..MaxGroupLeads |-> PendingLead(k)], prov) :
        prov \in {"clado", "apollo"} }
    \cup { GroupCall("filterPOST", [k \in 1..(FILTER_ROUTE_BATCH_SIZE + 1) |-> k], "clado"),
           GroupCall("twitterPATCH", [k \in 1..FILTER_ROUTE_BATCH_SIZE |-> k], "clado"),
           GroupCall("handleSubmit",
                     Chunks([k \in 1..MaxProfiles |-> k], FILTER_BATCH_SIZE), "clado"),
           GroupCall("handleEnrich",
                     Chunks([k \in 1..MaxProfiles |-> PendingLead(k)], ENRICH_BATCH_SIZE),
                     "clado") }

InitGroups ==
    /\ call \in GroupCalls
    /\ returned = Pending
    /\ llm = GroupLlm
    /\ upstream = GroupUpstream
    /\ request = Pending
    /\ response = Pending
    /\ verdicts = Pending
    /\ IdleResolver
    /\ IdleOrchestrator

\* One call of the group in flight settles; in the enrich endpoint its
\* callback has counted it (successfulEnrichments++ or failedEnrichments++).
CallSettles ==
    /\ returned = Pending
    /\ \E k \in 1..Len(call.slots) :
          /\ call.slots[k].status = "pending"
          /\ \E outcome \in Outcomes(call, k) :
                call' = [call EXCEPT !.slots[k] = outcome,
                                     !.done = Append(@, call.i + k),
                                     !.success = IF call.fn = "PATCH"
                                                 THEN @ + outcome.success ELSE @,
                                     !.failed = IF call.fn = "PATCH"
                                                THEN @ + outcome.failed ELSE @]
    /\ UNCHANGED <<returned, resolverVars, patchVars, qualifierVars, orchVars>>

\* Promise.all rejects as soon as one of its promises has rejected: the catch
\* block of the handler, which leaves the loop.
GroupRejects ==
    /\ returned = Pending
    /\ IsClient(call.fn)
    /\ \E k \in 1..Len(call.slots) : call.slots[k].status = "rejected"
    /\ returned' = [kind |-> "throw", results |-> call.acc]
    /\ UNCHANGED <<call, resolverVars, patchVars, qualifierVars, orchVars>>

\* The await of the group returns: the code up to the next group's calls or,
\* after the last group, to the return.
GroupSettles ==
    /\ returned = Pending
    /\ AllSettled(call.slots)
    /\ IsClient(call.fn) =>
          \A k \in 1..Len(call.slots) : call.slots[k].status # "rejected"
    /\ \E settled \in {SettledArray(call.slots, SettleOrder(call))} :
       \E group \in {SubSeq(call.items, call.i + 1, call.i + Len(call.slots))} :
       \E acc \in {call.acc \o Gathered(call.fn, settled, group)} :
          LET next == call.i + Len(call.slots)
              left == Len(call.items) - next
              data == ValuesOf(settled)
              allLeads == Flatten(call.items)
          IN  /\ call' = [call EXCEPT
                    !.acc = acc,
                    !.success = IF call.fn = "handleEnrich"
                                THEN @ + SumSeq([b \in 1..Len(data) |-> data[b].enriched])
                                ELSE @,
                    !.failed = IF call.fn = "handleEnrich"
                               THEN @ + SumSeq([b \in 1..Len(data) |->
                                                    data[b].failed_enrichments])
                               ELSE @,
                    !.checkpoint =
                        IF call.fn = "handleSubmit" THEN acc
                        ELSE IF call.fn = "handleEnrich"
                        THEN acc \o SubSeq(allLeads,
                                           Min(next * ENRICH_BATCH_SIZE, Len(allLeads)) + 1,
                                           Len(allLeads))
                        ELSE @,
                    !.i = next,
                    !.slots = IF left > 0
                              THEN PendingSlots(Min(Len(call.slots), left))
                              ELSE @]
              /\ returned' = IF left > 0 THEN Pending
                             ELSE [kind |-> "return", results |-> acc]
    /\ UNCHANGED <<resolverVars, patchVars, qualifierVars, orchVars>>

NextGroups ==
    \/ CallSettles
    \/ GroupRejects
    \/ GroupSettles

SpecGroups == InitGroups /\ [][NextGroups]_vars

(***************************************************************************)
(* lib/location-filter.ts: the keyword check and batchFilterByLocation,    *)
(* which runs the three checks on every lead of a list.                    *)
(***************************************************************************)
MaxPrefilterLeads == 2    \* leads in one call of batchFilterByLocation

\* The keyword list, cut down to the entries that occur in a description of
\* DescriptionTexts: no other entry is a substring of any of these texts.
POSITIVE_KEYWORDS == { <<"s", "a", "a", "s">>, <<"b", "2", "b">> }

KeywordResult(hasKeyword, matched, reason) ==
    [hasKeyword |-> hasKeyword, matchedKeywords |-> matched, reason |-> reason]

\* checkKeywords: the reason is the fixed part of the message and, when keywords
\* were found, their number.
checkKeywords(description) ==
    IF description = <<>> \/ Trim(description) = <<>>
    THEN KeywordResult(FALSE, {}, [text |-> "No description provided"])
    ELSE LET trimmed == Trim(description)
             cleanDesc == IF trimmed[1] = DQ /\ trimmed[Len(trimmed)] = DQ
                          THEN SubSeq(trimmed, 2, Len(trimmed) - 1) ELSE trimmed
             desc == Trim(LowerCase(cleanDesc))
             matched == { keyword \in POSITIVE_KEYWORDS : Includes(desc, keyword) }
         IN  IF matched = {}
             THEN KeywordResult(FALSE, {}, [text |-> "No positive keywords found"])
             ELSE KeywordResult(TRUE, matched,
                                [text |-> "Found keyword(s)", count |-> Cardinality(matched)])

\* The mutant of RejectionReasons that stops at the first check that fails.
RejectionReasonsFirstFailure(lead) ==
    LET locationResult == isUSLocation(lead.location)
        followerResult == checkFollowerCount(lead.public_metrics)
        keywordResult == checkKeywords(lead.description)
    IN  IF ~locationResult.isUS
        THEN <<[prefix |-> "Location", reason |-> [text |-> locationResult.reason]]>>
        ELSE IF ~followerResult.isValid
        THEN <<[prefix |-> "Followers", reason |-> followerResult.reason]>>
        ELSE IF ~keywordResult.hasKeyword
        THEN <<[prefix |-> "Keywords", reason |-> keywordResult.reason]>>
        ELSE <<>>

\* rejectionReasons of one pass of the loop: "Location: ...", "Followers: ..." and
\* "Keywords: ...", each pushed when its check fails.
RejectionReasons(lead) ==
    LET locationResult == isUSLocation(lead.location)
        followerResult == checkFollowerCount(lead.public_metrics)
        keywordResult == checkKeywords(lead.description)
    IN  (IF ~locationResult.isUS
         THEN <<[prefix |-> "Location", reason |-> [text |-> locationResult.reason]]>>
         ELSE <<>>)
        \o (IF ~followerResult.isValid
            THEN <<[prefix |-> "Followers", reason |-> followerResult.reason]>>
            ELSE <<>>)
        \o (IF ~keywordResult.hasKeyword
            THEN <<[prefix |-> "Keywords", reason |-> keywordResult.reason]>>
            ELSE <<>>)

\* The mutant of CountRejection that counts every rejected lead by its first reason.
CountRejectionByFirstReason(counters, rejectionReasons) ==
    IF rejectionReasons[1].prefix = "Location"
    THEN [counters EXCEPT !.rejectedLocation = @ + 1]
    ELSE IF rejectionReasons[1].prefix = "Followers"
    THEN [counters EXCEPT !.rejectedFollowers = @ + 1]
    ELSE IF rejectionReasons[1].prefix = "Keywords"
    THEN [counters EXCEPT !.rejectedKeywords = @ + 1]
    ELSE counters

\* "Track individual rejection reasons": startsWith on the first reason
CountRejection(counters, rejectionReasons) ==
    IF Len(rejectionReasons) > 1
    THEN [counters EXCEPT !.rejectedMultiple = @ + 1]
    ELSE IF rejectionReasons[1].prefix = "Location"
    THEN [counters EXCEPT !.rejectedLocation = @ + 1]
    ELSE IF rejectionReasons[1].prefix = "Followers"
    THEN [counters EXCEPT !.rejectedFollowers = @ + 1]
    ELSE IF rejectionReasons[1].prefix = "Keywords"
    THEN [counters EXCEPT !.rejectedKeywords = @ + 1]
    ELSE counters

\* { ...lead, rejection_reason: rejectionReasons.join(" | ") }: the joined text
\* stands as the list of its parts.
Rejected(lead, rejectionReasons) ==
    [name |-> lead.name, location |-> lead.location,
     public_metrics |-> lead.public_metrics, description |-> lead.description,
     rejection_reason |-> rejectionReasons]

\* for (const lead of leads) of batchFilterByLocation, from lead k on
RECURSIVE FilterLeadsFrom(_, _, _)
FilterLeadsFrom(leads, k, out) ==
    IF k > Len(leads) THEN out
    ELSE LET rejectionReasons == RejectionReasons(leads[k])
         IN  FilterLeadsFrom(leads, k + 1,
                 IF Len(rejectionReasons) > 0
                 THEN [out EXCEPT
                          !.rejectedLeads = Append(@, Rejected(leads[k], rejectionReasons)),
                          !.stats = CountRejection(@, rejectionReasons)]
                 ELSE [out EXCEPT !.qualifiedLeads = Append(@, leads[k]),
                                  !.stats.qualified = @ + 1])

batchFilterByLocation(leads) ==
    FilterLeadsFrom(leads, 1,
        [qualifiedLeads |-> <<>>, rejectedLeads |-> <<>>,
         stats |-> [total |-> Len(leads), qualified |-> 0, rejectedLocation |-> 0,
                    rejectedFollowers |-> 0, rejectedKeywords |-> 0,
                    rejectedMultiple |-> 0]])

\* The leads tried: a location in the US, one outside and none; follower counts
\* absent, below the minimum and at it; a description that is absent, holds a
\* keyword bare or in quotes, or holds none.
PrefilterLocations == { <<>>, <<"T", "e", "x", "a", "s">>, <<"L", "o", "n", "d", "o", "n">> }
PrefilterMetrics ==
    { [type |-> "undefined"],
      [type |-> "object", followers_count |-> Number(MIN_FOLLOWERS - 1)],
      [type |-> "object", followers_count |-> Number(MIN_FOLLOWERS)] }
DescriptionTexts ==
    { <<>>, <<"S", "a", "a", "S">>, <<DQ, "B", "2", "B", DQ>>, <<"B", "a", "k", "e", "r">> }
PrefilterLeads ==
    { [name |-> "lead", location |-> l, public_metrics |-> m, description |-> d] :
        l \in PrefilterLocations, m \in PrefilterMetrics, d \in DescriptionTexts }
PrefilterLists == UNION { [1..n -> PrefilterLeads] : n \in 0..MaxPrefilterLeads }

InitPrefilter ==
    /\ call \in { [fn |-> "batchFilterByLocation", leads |-> leads] :
                    leads \in PrefilterLists }
    /\ returned = Pending
    /\ IdleResolver
    /\ IdlePatch
    /\ IdleQualifier
    /\ IdleOrchestrator

CallBatchFilterByLocation ==
    /\ returned = Pending
    /\ call.fn = "batchFilterByLocation"
    /\ returned' = batchFilterByLocation(call.leads)
    /\ UNCHANGED <<call, resolverVars, patchVars, qualifierVars, orchVars>>

NextPrefilter ==
    \/ CallBatchFilterByLocation

SpecPrefilter == InitPrefilter /\ [][NextPrefilter]_vars

(***************************************************************************)
(* What each stage hands to the next.  processLeads of the page            *)
(* app/twitter-verifier/page.tsx: the leads of the file go through         *)
(* batchFilterByLocation, the qualified ones to the batch endpoint in      *)
(* batches, one request at a time.  handleSubmit and resumeFiltering of    *)
(* the LinkedIn page: the filter results become the leads of the page,     *)
(* which handleEnrich sends to the enrichment endpoint group by group.     *)
(* call holds the locals of the handler and, in forwarded, the items it    *)
(* has sent on so far.                                                     *)
(***************************************************************************)
TWITTER_BATCH_SIZE == 20

MaxGatingLeads == 45      \* items at the start of a pipeline

\* Lead k of the file: every second lead fails a check.
GatingLead(k) ==
    [name |-> k,
     location |-> IF k % 4 = 2 THEN <<"L", "o", "n", "d", "o", "n">>
                  ELSE <<"T", "e", "x", "a", "s">>,
     public_metrics |-> IF k % 8 = 4
                        THEN [type |-> "object",
                              followers_count |-> Number(MIN_FOLLOWERS - 1)]
                        ELSE [type |-> "undefined"],
     description |-> IF k % 4 = 0 THEN <<"B", "a", "k", "e", "r">>
                     ELSE <<"S", "a", "a", "S">>]

\* Filter result k of the LinkedIn page
GatingDecisions == <<"ACCEPT", "REJECT", "ACCEPT", "accept", "ACCEPT">>
GatingVerdict(k) ==
    [profile |-> k,
     icp_result |-> [decision |-> GatingDecisions[((k - 1) % Len(GatingDecisions)) + 1],
                     confidence |-> "HIGH", reasoning |-> "model"]]

GatingCall(fn, input) ==
    [fn |-> fn, pc |-> "start", input |-> input, batches |-> <<>>, i |-> 0,
     forwarded |-> <<>>, results |-> <<>>, accepted |-> <<>>, rejected |-> <<>>]

InitGating ==
    /\ call \in { GatingCall("processLeads", [k \in 1..n |-> GatingLead(k)]) :
                    n \in 0..MaxGatingLeads }
              \cup { GatingCall(fn, [k \in 1..n |-> GatingVerdict(k)]) :
                       fn \in {"handleSubmit", "resumeFiltering"},
                       n \in 0..MaxGatingLeads }
    /\ returned = Pending
    /\ llm = Cycle(SubSeq(GroupLlm, 1, 4), MaxGatingLeads)
    /\ upstream = GroupUpstream
    /\ request = Pending
    /\ response = Pending
    /\ verdicts = Pending
    /\ IdleResolver
    /\ IdleOrchestrator

\* processLeads, from the click to the await of the first batch request
ProcessLeadsStarts ==
    /\ returned = Pending
    /\ call.fn = "processLeads"
    /\ call.pc = "start"
    /\ \E qualifiedLeads \in {batchFilterByLocation(call.input).qualifiedLeads} :
       \E batches \in {Chunks(qualifiedLeads, TWITTER_BATCH_SIZE)} :
          IF batches = <<>>
          THEN /\ call' = [call EXCEPT !.pc = "complete", !.results = qualifiedLeads]
               /\ returned' = [kind |-> "return", accepted |-> <<>>]
          ELSE /\ call' = [call EXCEPT !.pc = "batch", !.results = qualifiedLeads,
                                       !.batches = batches, !.i = 1,
                                       !.forwarded = batches[1]]
               /\ returned' = returned
    /\ UNCHANGED <<resolverVars, patchVars, qualifierVars, orchVars>>

\* processLeads, from the response of a batch request to the next request or,
\* after the last, to the end of the handler
ProcessLeadsBatchAnswered ==
    /\ returned = Pending
    /\ call.fn = "processLeads"
    /\ call.pc = "batch"
    /\ \E batch \in {call.batches[call.i]} :
       \E data \in {TwitterPATCH(FilterRequest([k \in 1..Len(batch) |-> batch[k].name]),
                                 llm)} :
          LET processed == [k \in 1..Len(data.results) |->
                               [lead |-> batch[k],
                                filter_result |-> data.results[k].icp_result]]
              acceptedLeads == call.accepted
                  \o SelectSeq(processed, LAMBDA p : p.filter_result.decision = "ACCEPT")
              aiRejectedLeads == call.rejected
                  \o SelectSeq(processed, LAMBDA p : p.filter_result.decision # "ACCEPT")
          IN  /\ data.ok
              /\ IF call.i < Len(call.batches)
                 THEN /\ call' = [call EXCEPT !.accepted = acceptedLeads,
                                              !.rejected = aiRejectedLeads,
                                              !.i = @ + 1,
                                              !.forwarded = @ \o call.batches[call.i + 1]]
                      /\ returned' = returned
                 ELSE /\ call' = [call EXCEPT !.accepted = acceptedLeads,
                                              !.rejected = aiRejectedLeads,
                                              !.pc = "complete"]
                      /\ returned' = [kind |-> "return", accepted |-> acceptedLeads]
    /\ UNCHANGED <<resolverVars, patchVars, qualifierVars, orchVars>>

\* processLeads: the batch request fails; the catch block
ProcessLeadsBatchFails ==
    /\ returned = Pending
    /\ call.fn = "processLeads"
    /\ call.pc = "batch"
    /\ call' = [call EXCEPT !.pc = "failed"]
    /\ returned' = [kind |-> "throw", accepted |-> call.accepted]
    /\ UNCHANGED <<resolverVars, patchVars, qualifierVars, orchVars>>

\* "Filtering complete" of handleSubmit and resumeFiltering: the accepted
\* results become the leads of the page.
FilteringHandsOver ==
    /\ returned = Pending
    /\ call.fn \in {"handleSubmit", "resumeFiltering"}
    /\ call.pc = "start"
    /\ call' = [call EXCEPT !.pc = "filtered", !.results = PendingLeads(call.input)]
    /\ UNCHANGED <<returned, resolverVars, patchVars, qualifierVars, orchVars>>

\* handleEnrich on the leads of the page: the requests of its next group go out.
EnrichSendsGroup ==
    /\ returned = Pending
    /\ call.fn \in {"handleSubmit", "resumeFiltering"}
    /\ \/ call.pc = "filtered" /\ Len(call.results) > 0 /\ HasPending(call.results)
       \/ call.pc = "enriching"
    /\ \E batches \in {Chunks(call.results, ENRICH_BATCH_SIZE)} :
          LET group == ParallelBatches(batches, call.i, ENRICH_PARALLEL_BATCHES)
              more == call.i + ENRICH_PARALLEL_BATCHES < Len(batches)
          IN  /\ call' = [call EXCEPT !.pc = IF more THEN "enriching" ELSE "complete",
                                       !.batches = batches,
                                       !.i = @ + ENRICH_PARALLEL_BATCHES,
                                       !.forwarded = @ \o Flatten(group)]
              /\ returned' = IF more THEN returned
                             ELSE [kind |-> "return", accepted |-> call.results]
    /\ UNCHANGED <<resolverVars, patchVars, qualifierVars, orchVars>>

NextGating ==
    \/ ProcessLeadsStarts
    \/ ProcessLeadsBatchAnswered
    \/ ProcessLeadsBatchFails
    \/ FilteringHandsOver
    \/ EnrichSendsGroup

SpecGating == InitGating /\ [][NextGating]_vars

(***************************************************************************)
(* lib/linkedin-enricher.ts, fetchPostReactions: the pages of a post's     *)
(* reactions are requested one after the other.  call holds the locals of  *)
(* the function and what the endpoint answers for each page.               *)
(***************************************************************************)
MaxPages == 3             \* pages the endpoint holds at most

\* items.map(item => ({ name: item.fullName || "", linkedin_url: item.profileUrl || "", ... }))
MappedReactions(items) ==
    [k \in 1..Len(items) |->
        [name |-> items[k].fullName, linkedin_url |-> items[k].profileUrl]]

\* The items of page p: every second page is empty.
PageItems(p) ==
    IF p % 2 = 0 THEN <<>>
    ELSE <<[fullName |-> <<p, 1>>, profileUrl |-> <<"in", p, 1>>],
           [fullName |-> <<p, 2>>, profileUrl |-> <<"in", p, 2>>]>>

\* What the endpoint answers for a page: an error status, or the items of the
\* page with the number of pages (0 when the field is missing).
PageAnswers(p, total) ==
    { [ok |-> ok, items |-> PageItems(p), totalPages |-> reported] :
        ok \in BOOLEAN, reported \in {0, total} }

Endpoints ==
    UNION { { [total |-> total, pages |-> pages] :
                pages \in { f \in [1..total -> UNION { PageAnswers(p, total) : p \in 1..total }] :
                              \A p \in 1..total : f[p] \in PageAnswers(p, total) } } :
            total \in 1..MaxPages }

\* The answer to the request of page p; past the last page the endpoint has no items.
AnswerFor(endpoint, p) ==
    IF p <= endpoint.total THEN endpoint.pages[p]
    ELSE [ok |-> TRUE, items |-> <<>>, totalPages |-> endpoint.total]

\* The mutant of HasNext that goes one page further.
HasNextInclusive(currentPage, totalPages) == currentPage <= totalPages

\* hasNext = currentPage < totalPages
HasNext(currentPage, totalPages) == currentPage < totalPages

InitPages ==
    /\ call \in { [fn |-> "fetchPostReactions", endpoint |-> e, pc |-> "request",
                   currentPage |-> 1, hasNext |-> TRUE, allReactions |-> <<>>,
                   requested |-> <<>>, waits |-> 0] : e \in Endpoints }
    /\ returned = Pending
    /\ IdleResolver
    /\ IdlePatch
    /\ IdleQualifier
    /\ IdleOrchestrator

\* The request of the current page is answered with an error status: the throw.
PageRequestFails ==
    /\ returned = Pending
    /\ call.pc = "request"
    /\ ~AnswerFor(call.endpoint, call.currentPage).ok
    /\ call' = [call EXCEPT !.requested = Append(@, call.currentPage), !.pc = "thrown"]
    /\ returned' = [kind |-> "throw", error |-> "Clado API error"]
    /\ UNCHANGED <<resolverVars, patchVars, qualifierVars, orchVars>>

\* The request of the current page is answered: the rest of the pass of the
\* loop, up to the delay before the next request or to the return.
PageAnswered ==
    /\ returned = Pending
    /\ call.pc = "request"
    /\ \E data \in {AnswerFor(call.endpoint, call.currentPage)} :
          LET allReactions == call.allReactions \o MappedReactions(data.items)
              totalPages == OrElse(data.totalPages, 1)
              hasNext == HasNext(call.currentPage, totalPages)
          IN  /\ data.ok
              /\ call' = [call EXCEPT !.requested = Append(@, call.currentPage),
                                      !.allReactions = allReactions,
                                      !.hasNext = hasNext,
                                      !.currentPage = @ + 1,
                                      !.pc = IF hasNext THEN "delay" ELSE "returned"]
              /\ returned' = IF hasNext THEN returned
                             ELSE [kind |-> "return", value |-> allReactions]
    /\ UNCHANGED <<resolverVars, patchVars, qualifierVars, orchVars>>

\* setTimeout of 500 ms between two page requests has fired.
PageDelayElapses ==
    /\ returned = Pending
    /\ call.pc = "delay"
    /\ call' = [call EXCEPT !.pc = "request", !.waits = @ + 1]
    /\ UNCHANGED <<returned, resolverVars, patchVars, qualifierVars, orchVars>>

NextPages ==
    \/ PageRequestFails
    \/ PageAnswered
    \/ PageDelayElapses

SpecPages == InitPages /\ [][NextPages]_vars

\* Every request is answered and every timer fires.
SpecPagesFair == SpecPages /\ WF_vars(NextPages)

(***************************************************************************)
(* The page when every request that is not failing is answered and every   *)
(* timer fires: the steps that end an await are taken when they stay       *)
(* possible.  A failing request, a reload and the clicks stay possible.    *)
(***************************************************************************)
\* A pass is waiting for the answers to a group of requests: the step in which
\* its group settles is enabled.
AwaitingGroup == run.pc = "group"

\* Weak fairness of the timer step and of the four steps in which a group
\* settles; for these four it is written with their enabling condition spelled
\* out: an await of a group of requests does not last forever.
SpecProgress ==
    /\ Spec
    /\ WF_vars(DelayElapses)
    /\ []<>(~AwaitingGroup)

(***************************************************************************)
(* Claims about the contact resolver, checked under SpecResolver.          *)
(***************************************************************************)
\* The domain of an address, read off the address itself: its last part, lowercased.
EmailDomain(email) == ToLowerCase(email[Len(email)])

\* The positions of the returned contacts that are emails of category subType
\* outside the personal-mail deny-list.
AcceptableAt(contacts, subType) ==
    { k \in 1..Len(contacts) :
        /\ contacts[k].type = "email"
        /\ contacts[k].subType = subType
        /\ EmailDomain(contacts[k].value) \notin personalDomains }

CategoryOrder(fn) ==
    IF fn = "enrichContact" THEN <<"verified", "work", "risky">>
    ELSE <<"verified", "work", "professional">>

NonEmptyCategories(contacts, order) ==
    { j \in 1..Len(order) : AcceptableAt(contacts, order[j]) # {} }

HighestCategory(contacts, order) ==
    order[CHOOSE j \in NonEmptyCategories(contacts, order) :
              \A i \in NonEmptyCategories(contacts, order) : j <= i]

\* enrichContact (either version) has returned for a list of contacts.
CladoReturned ==
    /\ resolved # Pending
    /\ resolved.fn \in {"enrichContact", "enrichContactProfessional"}
    /\ ~resolved.threw

\* C3: after the personal-domain exclusion the email enrichContact selects belongs
\* to the highest-priority non-empty category, whatever the ratings are.
C3_CategoryOutranksRating ==
    CladoReturned =>
        LET order == CategoryOrder(resolved.fn)
        IN  NonEmptyCategories(providerData.contacts, order) # {}
                => resolved.contact[1].email_subtype
                       = <<HighestCategory(providerData.contacts, order)>>

\* C4: the email a resolver returns never has a domain of the personal-mail
\* deny-list; enrichContact selects an acceptable email whenever one was returned
\* beside deny-listed ones, and enrichContactApollo returns the address it read
\* when that address is not deny-listed.
C4_NoPersonalDomain ==
    (resolved # Pending /\ ~resolved.threw) =>
        LET email == resolved.contact[1].email
        IN  /\ Truthy(email) => EmailDomain(email) \notin personalDomains
            /\ resolved.fn \in {"enrichContact", "enrichContactProfessional"} =>
                   LET order == CategoryOrder(resolved.fn)
                       ok == UNION { AcceptableAt(providerData.contacts, order[j]) :
                                       j \in 1..Len(order) }
                   IN  ok # {} => \E k \in ok : email = providerData.contacts[k].value
            /\ resolved.fn = "enrichContactApollo" =>
                   LET first == providerData.person.email
                   IN  (Truthy(first) /\ EmailDomain(first) \notin personalDomains)
                           => email = first

\* C4 witness: {a@gmail.com verified 60, x@acme.com work 40} resolved to x@acme.com.
C4_Witness ==
    /\ resolved # Pending
    /\ resolved.fn = "enrichContact"
    /\ providerData.contacts
           = << EmailContact("verified", <<"a", "gmail.com">>, <<60>>),
                EmailContact("work", <<"x", "acme.com">>, <<40>>) >>
    /\ resolved.contact[1].email = <<"x", "acme.com">>

\* C5: within the highest non-empty category enrichContact selects the email with
\* the highest rating (a missing rating counts as 0), the first seen among equals.
C5_BestRatedInHighestCategory ==
    CladoReturned =>
        LET order == CategoryOrder(resolved.fn)
            contacts == providerData.contacts
        IN  NonEmptyCategories(contacts, order) # {} =>
                LET bucket == AcceptableAt(contacts, HighestCategory(contacts, order))
                    best == CHOOSE k \in bucket : \A j \in bucket :
                                \/ RatingOrZero(contacts[k]) > RatingOrZero(contacts[j])
                                \/ /\ RatingOrZero(contacts[k]) = RatingOrZero(contacts[j])
                                   /\ k <= j
                IN  /\ resolved.contact[1].email = contacts[best].value
                    /\ resolved.contact[1].email_rating = contacts[best].rating
                    /\ resolved.contact[1].email_subtype = <<contacts[best].subType>>

(***************************************************************************)
(* Claims about the enrichment endpoint, checked under SpecPatch.          *)
(***************************************************************************)
ValidRequest ==
    /\ request # Pending
    /\ request.provider = "clado" => request.cladoApiKey
    /\ request.provider = "apollo" => request.apolloApiKey
    /\ request.leadsIsArray
    /\ Len(request.leads) > 0

OnlyPhones(contacts) == contacts # <<>> /\ \A k \in 1..Len(contacts) : contacts[k].type = "phone"

CountStatus(leads, status) ==
    Cardinality({ k \in 1..Len(leads) : leads[k].enrichment_status = status })

\* C6: the endpoint marks a lead SUCCESS exactly when the resolver returned a
\* non-empty email that survived filtering; when it returned none (also when only
\* phone numbers came back) the lead is FAILED with "No email found" and an empty
\* contact.
C6_SuccessIffEmail ==
    (response # Pending /\ response.ok) =>
        \A k \in 1..Len(response.results) :
            LET lead == response.results[k]
                r == Resolve(request.leads[k], request.provider, upstream)
                hasEmail == ~r.threw /\ Truthy(r.contact[1].email)
            IN  /\ lead.enrichment_status = "SUCCESS" <=> hasEmail
                /\ lead.enrichment_status = "SUCCESS" =>
                       /\ lead.contact.email # Undefined
                       /\ lead.contact.email # <<"">>
                       /\ EmailDomain(lead.contact.email) \notin personalDomains
                /\ (~r.threw /\ ~hasEmail) =>
                       /\ lead.enrichment_status = "FAILED"
                       /\ lead.error = "No email found"
                       /\ lead.contact = NoEmailContact
                /\ (request.provider = "clado"
                        /\ upstream[request.leads[k].profile].clado.kind = "ok"
                        /\ OnlyPhones(upstream[request.leads[k].profile].clado.contacts))
                       => lead.enrichment_status = "FAILED" /\ lead.error = "No email found"

\* C6 witness: one response holds a SUCCESS lead, a lead FAILED on phone numbers
\* alone and a lead FAILED on an empty address.
C6_Witness ==
    /\ response # Pending /\ response.ok
    /\ request.provider = "clado"
    /\ \E i, j, k \in 1..Len(response.results) :
          /\ response.results[i].enrichment_status = "SUCCESS"
          /\ upstream[j] = AnswerPhoneOnly
          /\ response.results[j].error = "No email found"
          /\ upstream[k] = AnswerPersonalOrEmpty
          /\ response.results[k].enrichment_status = "FAILED"

\* C9: a resolver that throws for some leads stops nothing: the response holds one
\* result per lead, in request order, each SUCCESS or FAILED, the throwing leads
\* FAILED with the error text, every other lead resolved as it is alone, and
\* enriched + failed_enrichments = n.
C9_PerLeadFailureIsolated ==
    (response # Pending /\ ValidRequest) =>
        LET n == Len(request.leads)
        IN  /\ response.ok
            /\ Len(response.results) = n
            /\ \A k \in 1..Len(response.results) :
                   LET lead == response.results[k]
                       r == Resolve(request.leads[k], request.provider, upstream)
                       alone == PATCH([request EXCEPT !.leads = <<request.leads[k]>>], upstream)
                   IN  /\ lead.profile = request.leads[k].profile
                       /\ lead.enrichment_status \in {"SUCCESS", "FAILED"}
                       /\ r.threw => /\ lead.enrichment_status = "FAILED"
                                     /\ lead.error = r.error
                                     /\ lead.error # ""
                       /\ alone.results = <<lead>>
            /\ response.enriched + response.failed_enrichments = n
            /\ response.enriched = CountStatus(response.results, "SUCCESS")
            /\ response.failed_enrichments = CountStatus(response.results, "FAILED")

\* C9 witness: a request of more than one server batch in which one lead throws and
\* a later lead is enriched.
C9_Witness ==
    /\ response # Pending /\ response.ok
    /\ Len(request.leads) > ENRICHMENT_BATCH_SIZE
    /\ \E i, j \in 1..Len(response.results) :
          /\ i < j
          /\ upstream[i] = AnswerError
          /\ response.results[i].enrichment_status = "FAILED"
          /\ response.results[j].enrichment_status = "SUCCESS"

(***************************************************************************)
(* Claims about the ICP qualifier, checked under SpecQualifier.            *)
(***************************************************************************)
IsRejectLow(v) == v.decision = "REJECT" /\ v.confidence = "LOW"

\* No part of the text decodes as JSON.
HoldsNoJSON(content) ==
    \A i \in 1..Len(content) : \A j \in i..Len(content) :
        ~JSONParse(SubSeq(content, i, j)).ok

FailureOutcome(outcome) ==
    \/ outcome.kind # "content"
    \/ outcome.content = <<>>
    \/ HoldsNoJSON(outcome.content)

Commentary(s) == \A k \in 1..Len(s) : s[k] \in {"t", " "}
Whitespace(s) == \A k \in 1..Len(s) : s[k] = " "

\* Commentary, an opening fence, its optional language tag, whitespace.
OpensFence(s) ==
    \E i \in 1..Len(s) :
        /\ s[i] = "fence"
        /\ Commentary(SubSeq(s, 1, i - 1))
        /\ \/ Whitespace(SubSeq(s, i + 1, Len(s)))
           \/ i < Len(s) /\ s[i + 1] = "json" /\ Whitespace(SubSeq(s, i + 2, Len(s)))

\* Whitespace, a closing fence, commentary.
ClosesFence(s) ==
    \E i \in 1..Len(s) :
        /\ s[i] = "fence"
        /\ Whitespace(SubSeq(s, 1, i - 1))
        /\ Commentary(SubSeq(s, i + 1, Len(s)))

\* One verdict object, in a code fence or between words of commentary.
WrappedVerdict(content) ==
    \E v \in 1..Len(content) :
        LET pre == SubSeq(content, 1, v - 1)
            post == SubSeq(content, v + 1, Len(content))
        IN  /\ content[v] = "V"
            /\ Len(content) > 1
            /\ \/ Commentary(pre) /\ Commentary(post)
               \/ OpensFence(pre) /\ ClosesFence(post)

\* C7: analyzeLead and filterByICP never throw; on a network error, a non-OK
\* status, an unreadable body, a provider error, empty content and content that
\* holds no JSON they resolve with REJECT/LOW; and a batch request (within the
\* filter route's request limit) whose every model call fails in transport is
\* answered with one REJECT/LOW verdict per item, in item order.
C7_QualifierNeverThrows ==
    verdicts # Pending =>
        /\ verdicts.single # <<>> =>
              /\ ~verdicts.single[1].threw
              /\ FailureOutcome(llm[1]) => IsRejectLow(verdicts.single[1].verdict)
        /\ ( /\ verdicts.single = <<>>
             /\ Len(llm) \in 1..MAX_PROFILES_PER_REQUEST
             /\ \A k \in 1..Len(llm) : llm[k] \in TransportFailures )
           => /\ verdicts.batch.ok
              /\ Len(verdicts.batch.results) = Len(llm)
              /\ \A k \in 1..Len(llm) :
                    /\ verdicts.batch.results[k].profile = k
                    /\ IsRejectLow(verdicts.batch.results[k].icp_result)

\* C7 witness: the filter route has answered a request of more than one server
\* batch in which every model call failed in transport, a network error among them.
C7_Witness ==
    /\ verdicts # Pending
    /\ verdicts.fn = "FilterPOST"
    /\ Len(llm) > FILTER_ROUTE_BATCH_SIZE
    /\ \A k \in 1..Len(llm) : llm[k] \in TransportFailures
    /\ \E k \in 1..Len(llm) : llm[k].kind = "networkError"
    /\ Len(verdicts.batch.results) = Len(llm)

\* C8: in analyzeLead and in filterByICP alike, a response text that is a verdict
\* object wrapped in a code fence or surrounded by commentary is answered with
\* the wrapped verdict.
C8_WrapperStripped ==
    (verdicts # Pending /\ verdicts.single # <<>>) =>
        (WrappedVerdict(llm[1].content) =>
            verdicts.single[1].verdict = ModelVerdict)

(***************************************************************************)
(* Claims about the page and its checkpoints, checked under Spec.          *)
(***************************************************************************)
\* The leads as the filter stage handed them over, nothing enriched.
AsPending(leads) ==
    [k \in 1..Len(leads) |->
        [leads[k] EXCEPT !.contact = NoEmailContact, !.enrichment_status = "PENDING",
                         !.error = ""]]

\* What one uninterrupted enrichment pass over all the leads produces: the
\* endpoint's answers to the batches of ENRICH_BATCH_SIZE leads, in order.
UnbrokenPass(leads, prov) ==
    LET batches == Chunks(leads, ENRICH_BATCH_SIZE)
    IN  Flatten([b \in 1..Len(batches) |->
                    PATCH(EnrichRequest(batches[b], prov), upstream).results])

IsTerminal(lead) == lead.enrichment_status \in {"SUCCESS", "FAILED"}

\* C1: while resumeEnriching runs from a checkpoint with cursor c and N leads, the
\* leads it has sent to the endpoint are leads c+1..m of the checkpoint, in order,
\* for some m <= N -- none of the first c -- and when it has completed it has
\* sent all of c+1..N and the results list equals, position by position, what one
\* uninterrupted pass over all N leads produces.
C1_ResumeEquivalence ==
    run.name = "resumeEnriching" =>
        LET c == run.saved.enrichIndex
            ids == ProfilesOf(run.saved.results)
            N == Len(ids)
        IN  /\ run.saved.stage = "enriching"
            /\ c <= N
            /\ \E m \in c..N : sent = SubSeq(ids, c + 1, m)
            /\ run.pc = "done" =>
                  /\ sent = SubSeq(ids, c + 1, N)
                  /\ results = UnbrokenPass(AsPending(run.saved.results), run.prov)

\* C1 witness: resumeEnriching has completed from a cursor strictly inside the
\* list, with an enriched lead before the cursor and a settled one after it.
C1_Witness ==
    /\ run.name = "resumeEnriching"
    /\ run.pc = "done"
    /\ 0 < run.saved.enrichIndex
    /\ run.saved.enrichIndex < Len(run.saved.results)
    /\ \E k \in 1..run.saved.enrichIndex : results[k].enrichment_status = "SUCCESS"
    /\ IsTerminal(results[Len(results)])
    /\ sent # <<>>

\* C2 as stated: in every checkpoint written, the cursors do not exceed the sizes
\* of allProfiles and results, and the list stored for the checkpoint's stage is
\* as long as its cursor: filteredResults as filterIndex in a "filtering"
\* checkpoint, results as enrichIndex in an "enriching" checkpoint.
C2_CheckpointInvariant ==
    \A w \in 1..Len(writes) :
        /\ writes[w].filterIndex <= Len(writes[w].allProfiles)
        /\ writes[w].enrichIndex <= Len(writes[w].results)
        /\ writes[w].stage = "filtering" =>
              Len(writes[w].filteredResults) = writes[w].filterIndex
        /\ writes[w].stage = "enriching" =>
              Len(writes[w].results) = writes[w].enrichIndex

\* A checkpoint is consistent: the cursors are within their lists, the results
\* before enrichIndex are settled and, in a checkpoint of the filter stage,
\* filteredResults is as long as filterIndex and nothing is enriched.
ConsistentCheckpoint(saved) ==
    /\ saved.filterIndex <= Len(saved.allProfiles)
    /\ saved.enrichIndex <= Len(saved.results)
    /\ \A k \in 1..Len(saved.results) : k <= saved.enrichIndex => IsTerminal(saved.results[k])
    /\ saved.stage \in {"filtering", "complete"} =>
          /\ Len(saved.filteredResults) = saved.filterIndex
          /\ saved.enrichIndex = 0
    /\ saved.stage = "filtering" => saved.results = <<>>

\* C2 amended: every checkpoint written, and the checkpoint in the store, is
\* consistent; and an "enriching" checkpoint stores all the leads of the run: the
\* enriched leads accumulated so far in its first enrichIndex places, the leads
\* not yet sent, unchanged, behind them.
C2_CursorsWithinFullLists ==
    /\ storage # NoCheckpoint => ConsistentCheckpoint(storage)
    /\ \A w \in 1..Len(writes) :
          /\ ConsistentCheckpoint(writes[w])
          /\ writes[w].stage = "enriching" =>
                /\ Len(writes[w].results) = Len(run.leads)
                /\ SubSeq(writes[w].results, 1, writes[w].enrichIndex) = run.enrichedLeads
                /\ \A k \in 1..Len(run.leads) :
                      k > writes[w].enrichIndex => writes[w].results[k] = run.leads[k]

\* C2 witness: an "enriching" checkpoint is written whose cursor is strictly
\* inside the list of leads.
C2_Witness ==
    \E w \in 1..Len(writes) :
        /\ writes[w].stage = "enriching"
        /\ 0 < writes[w].enrichIndex
        /\ writes[w].enrichIndex < Len(writes[w].results)

\* C10: after every group of an enrichment run, fresh or resumed, the counters
\* saved and shown equal the numbers of SUCCESS and FAILED leads among the leads
\* accumulated so far -- those accumulated before a resume included -- and their
\* sum equals the cursor.
C10_CountersCumulative ==
    /\ \A w \in 1..Len(writes) :
          writes[w].stage = "enriching" =>
              LET saved == writes[w]
                  accumulated == SubSeq(saved.results, 1, saved.enrichIndex)
              IN  /\ saved.enrichIndex <= Len(saved.results)
                  /\ saved.stats.enriched = CountStatus(accumulated, "SUCCESS")
                  /\ saved.stats.failed_enrichments = CountStatus(accumulated, "FAILED")
                  /\ saved.stats.enriched + saved.stats.failed_enrichments
                         = saved.enrichIndex
                  /\ stats.enriched = saved.stats.enriched
                  /\ stats.failed_enrichments = saved.stats.failed_enrichments
    /\ (IsEnrichRun /\ run.pc \in {"delay", "done"}) =>
          /\ stats.enriched = CountStatus(run.enrichedLeads, "SUCCESS")
          /\ stats.failed_enrichments = CountStatus(run.enrichedLeads, "FAILED")
          /\ stats.enriched + stats.failed_enrichments = Len(run.enrichedLeads)

\* C10 witness: a resumed run has completed a group, with successes and failures
\* counted before the resume and a lead settled after it.
C10_Witness ==
    /\ run.name = "resumeEnriching"
    /\ writes # <<>>
    /\ run.startIndex > 0
    /\ run.saved.stats.enriched > 0
    /\ run.saved.stats.failed_enrichments > 0
    /\ stats.enriched + stats.failed_enrichments > run.startIndex


CursorsWithin(saved) ==
    /\ saved.filterIndex <= Len(saved.allProfiles)
    /\ saved.enrichIndex <= Len(saved.results)

Stale(saved) == now - saved.savedAt >= STALE_AFTER

\* C13: a stored checkpoint that is 24 hours old or older is never returned by
\* loadProgress and is never offered for resume.
C13_StaleNeverOffered ==
    /\ loadProgress(storage, now) # NoCheckpoint => ~Stale(storage)
    /\ (savedState # NoCheckpoint /\ savedState = storage) => ~Stale(savedState)


\* C14: a lead that is SUCCESS or FAILED when an enrichment run starts is not sent
\* to the resolver by that run, and its status stays as it is.
C14_TerminalNeverResent ==
    IsEnrichRun =>
        \A k \in 1..Len(run.leads) :
            IsTerminal(run.leads[k]) =>
                /\ \A j \in 1..Len(sent) : sent[j] # run.leads[k].profile
                /\ k <= Len(results) =>
                      results[k].enrichment_status = run.leads[k].enrichment_status


\* The items of the groups a run has completed, those before a resume included.
CompletedItems ==
    run.startIndex
        + run.i * (IF IsFilterRun THEN FILTER_BATCH_SIZE ELSE ENRICH_BATCH_SIZE)

\* The cursor of the stage a run works on.
StageCursor(saved) == IF IsFilterRun THEN saved.filterIndex ELSE saved.enrichIndex

BatchFatal(req) ==
    IF req.endpoint = "enrich"
    THEN \/ req.body.provider = "clado" /\ ~req.body.cladoApiKey
         \/ req.body.provider = "apollo" /\ ~req.body.apolloApiKey
         \/ ~req.body.leadsIsArray
         \/ Len(req.body.leads) = 0
    ELSE \/ ~req.body.openRouterKey
         \/ ~req.body.isArray
         \/ Len(req.body.profiles) = 0
         \/ req.endpoint = "filter" /\ Len(req.body.profiles) > MAX_PROFILES_PER_REQUEST

\* The resolver or qualifier calls behind a response: each call of the enrich
\* endpoint adds one to one of its two counters, each call of the other two
\* endpoints leaves one result.
CallsMade(req, resp) ==
    IF req.endpoint = "enrich" THEN resp.enriched + resp.failed_enrichments
    ELSE Len(resp.results)

ItemsOf(req) ==
    IF req.endpoint = "enrich" THEN Len(req.body.leads) ELSE Len(req.body.profiles)

\* C16: a request without the credential it needs, or whose profiles (leads) are
\* not an array, are empty or exceed the per-request limit, is answered with an
\* error and no qualifier or resolver call is made for it; every other request
\* is processed, one call per item.
C16_BatchFatalNoProcessing ==
    response # Pending =>
        IF BatchFatal(request)
        THEN /\ ~response.ok
             /\ response.status \in {400, 500}
             /\ response.results = <<>>
             /\ CallsMade(request, response) = 0
        ELSE /\ response.ok
             /\ CallsMade(request, response) = ItemsOf(request)

\* C16 witness: a filter request with the key configured and more profiles than
\* one request may carry has been answered with an error.
C16_Witness ==
    /\ response # Pending
    /\ request.endpoint = "filter"
    /\ request.body.openRouterKey
    /\ Len(request.body.profiles) > MAX_PROFILES_PER_REQUEST
    /\ ~response.ok


(***************************************************************************)
(* Claims about the lead checks, checked under SpecLeadChecks.             *)
(***************************************************************************)
IsCall(fn) == call # Pending /\ call.fn = fn /\ returned # Pending

\* The text isUSLocation searches: lowercased and trimmed.
Searched(location) == Trim(LowerCase(location))

HasNonUSKeyword(location) ==
    \E nonUS \in NON_US_INDICATORS : Includes(Searched(location), nonUS)

\* A US keyword: the country by name, or "us" or a state abbreviation as a
\* word, or the name of a state or of a city.
HasUSKeyword(location) ==
    LET loc == Searched(location)
    IN  \/ Includes(loc, <<"u", "n", "i", "t", "e", "d", " ", "s", "t", "a", "t", "e", "s">>)
        \/ Includes(loc, <<"u", "s", "a">>)
        \/ \E word \in SplitWords(loc) : word \in US_STATE_ABBREV \cup {<<"u", "s">>}
        \/ \E name \in US_STATES \cup US_CITIES : Includes(loc, name)

\* C17: a location text that holds a non-US keyword and a US keyword at the same
\* time is rejected by isUSLocation (isUS = false).
C17_NonUSKeywordWins ==
    (/\ IsCall("isUSLocation")
     /\ HasNonUSKeyword(call.location)
     /\ HasUSKeyword(call.location)) => ~returned.isUS

\* A followers_count that is present: the metrics are an object, or a string
\* that parses to one, and the count is a number.
PresentCount(publicMetrics) ==
    /\ \/ publicMetrics.type = "object"
       \/ publicMetrics.type = "string" /\ publicMetrics.json = "object"
    /\ publicMetrics.followers_count.type = "number"

\* C18: a present followers_count v is rejected exactly when v < 100 or v > 5000,
\* with a reason that cites v; metrics that are absent, empty, not valid JSON or
\* without a followers_count pass the check.
C18_FollowerRange ==
    IsCall("checkFollowerCount") =>
        IF PresentCount(call.publicMetrics)
        THEN LET v == call.publicMetrics.followers_count.value
             IN  /\ ~returned.isValid <=> (v < 100 \/ v > 5000)
                 /\ ~returned.isValid => returned.reason.count = v
        ELSE returned.isValid

\* The count 100, on the lower limit, has passed.
C18_Witness ==
    /\ IsCall("checkFollowerCount")
    /\ PresentCount(call.publicMetrics)
    /\ call.publicMetrics.followers_count.value = 100
    /\ returned.isValid


(***************************************************************************)
(* Claims about parseCSV and convertToCSV, checked under SpecCsv.          *)
(***************************************************************************)
\* The data rows of the table a file was written from: its lines that are not blank.
DataRows(table) == SelectSeq(table.rows, LAMBDA line : line # <<>>)

\* The value a row of the table has in the column at position c, trimmed.
Trimmed(line, c) == TrimWhite(line[c].value)
Usable(line) == Trimmed(line, 1) # <<>> /\ Trimmed(line, 2) # <<>>

\* The value a lead has under a key, "" when it has none.
ValueOf(lead, key) == IF Has(lead, key) THEN Get(lead, key) ELSE <<>>

\* How many of the lines have a name (hasName) and a description (hasDescription).
HowMany(lines, hasName, hasDescription) ==
    Cardinality({ k \in 1..Len(lines) :
                    /\ (Trimmed(lines[k], 1) # <<>>) = hasName
                    /\ (Trimmed(lines[k], 2) # <<>>) = hasDescription })

\* C19: the leads parseCSV returns are exactly the data rows whose trimmed name
\* and trimmed description are both non-empty, in file order; every other data
\* row is counted in exactly one of missingName, missingDescription and
\* missingBoth, so the leads and the drops add up to the data rows.
C19_DropAccounting ==
    (IsCall("parseCSV") /\ ~call.reparse /\ returned.kind = "return") =>
        LET lines == DataRows(call.table)
            usable == SelectSeq(lines, Usable)
            drops == returned.dropReasons
        IN  /\ Len(returned.leads) = Len(usable)
            /\ \A k \in 1..Len(usable) :
                   /\ ValueOf(returned.leads[k], <<"name">>) = Trimmed(usable[k], 1)
                   /\ ValueOf(returned.leads[k], <<"description">>) = Trimmed(usable[k], 2)
            /\ drops.missingName = HowMany(lines, FALSE, TRUE)
            /\ drops.missingDescription = HowMany(lines, TRUE, FALSE)
            /\ drops.missingBoth = HowMany(lines, FALSE, FALSE)
            /\ returned.droppedCount =
                   drops.missingName + drops.missingDescription + drops.missingBoth
            /\ Len(returned.leads) + returned.droppedCount = Len(lines)

\* Two data rows, one without a description: one lead, one drop for the description.
C19_Witness ==
    /\ IsCall("parseCSV")
    /\ ~call.reparse
    /\ returned.kind = "return"
    /\ Len(DataRows(call.table)) = 2
    /\ Len(returned.leads) = 1
    /\ returned.dropReasons = [missingName |-> 0, missingDescription |-> 1, missingBoth |-> 0]

\* C20: parsing the text convertToCSV makes of a list of leads gives as many
\* leads, in the same order, with the same name, description and location.
C20_ExportRoundTrip ==
    (IsCall("parseCSV") /\ call.reparse) =>
        /\ returned.kind = "return"
        /\ Len(returned.leads) = Len(call.exported)
        /\ \A k \in 1..Len(call.exported) :
               \A key \in {<<"name">>, <<"description">>, <<"location">>} :
                   ValueOf(returned.leads[k], key) = ValueOf(call.exported[k].data, key)


(***************************************************************************)
(* Claims about handlers that overlap, checked under SpecOverlap.          *)
(***************************************************************************)
\* C21: in every reachable state at most one of handleSubmit, handleEnrich,
\* resumeFiltering and resumeEnriching is in progress and writing the
\* checkpoint, so their saveProgress and clearProgress calls on the one storage
\* key never interleave.
C21_SingleCheckpointWriter ==
    Len(handlers) <= 1


(***************************************************************************)
(* Claims about the concurrent calls of a group, checked under SpecGroups. *)
(***************************************************************************)
NonePending == \A k \in 1..Len(call.slots) : call.slots[k].status # "pending"
CountersChange == call'.success # call.success \/ call'.failed # call.failed

\* C22: the batch accumulator (the results list and the success and failure
\* counters) is modified only after every concurrent call of the current group
\* has settled; no call modifies it while other calls of its group are pending.
C22_AccumulatorOnlyAfterGroup ==
    [][(call'.acc # call.acc \/ CountersChange) => NonePending]_vars

\* C22, amended: the results list is modified only after every call of the
\* group has settled, and so are the counters of handleEnrich; in the enrich
\* endpoint each call adds one to the success or the failure counter when it
\* settles, whether or not other calls of its group are still pending.
C22_ResultsOnlyAfterGroup ==
    [][/\ call'.acc # call.acc => NonePending
       /\ (CountersChange /\ call.fn # "PATCH") => NonePending
       /\ (CountersChange /\ call.fn = "PATCH") =>
             \E k \in 1..Len(call.slots) :
                /\ call.slots[k].status = "pending"
                /\ call'.slots[k].status = "fulfilled"
                /\ \A other \in 1..Len(call.slots) :
                      other # k => call'.slots[other] = call.slots[other]
                /\ call'.success = call.success + call'.slots[k].success
                /\ call'.failed = call.failed + call'.slots[k].failed
                /\ call'.slots[k].success + call'.slots[k].failed = 1]_vars

\* The enrich endpoint has counted a call of a group that is still in flight.
C22_Witness ==
    /\ call.fn = "PATCH"
    /\ ~NonePending
    /\ call.success > 0
    /\ call.failed > 0
    /\ call.success + call.failed > Len(call.acc)


\* What the function returns when its calls are made one after the other, in
\* the order of the candidates.
OneByOne(c) ==
    CASE c.fn = "PATCH" -> PATCH(EnrichRequest(c.items, c.prov), upstream).results
      [] c.fn = "filterPOST" -> FilterPOST(FilterRequest(c.items), llm).results
      [] c.fn = "twitterPATCH" -> TwitterPATCH(FilterRequest(c.items), llm).results
      [] c.fn = "handleSubmit" ->
            Flatten([b \in 1..Len(c.items) |->
                        FilterPOST(FilterRequest(c.items[b]), llm).results])
      [] c.fn = "handleEnrich" ->
            Flatten([b \in 1..Len(c.items) |->
                        PATCH(EnrichRequest(c.items[b], c.prov), upstream).results])

\* The candidates of the call, in their original order
Candidates(c) ==
    IF c.fn = "handleSubmit" THEN Flatten(c.items)
    ELSE IF c.fn = "handleEnrich" THEN ProfilesOf(Flatten(c.items))
    ELSE IF c.fn = "PATCH" THEN ProfilesOf(c.items)
    ELSE c.items

InCandidateOrder(list, c) ==
    /\ Len(list) <= Len(Candidates(c))
    /\ \A j \in 1..Len(list) : list[j].profile = Candidates(c)[j]

\* C23: for every order in which the concurrent calls of a group complete, the
\* results list, every checkpoint and the final list hold the items in the
\* original candidate order, each with its own result, in the page and in the
\* filter, enrich and Twitter batch endpoints.
C23_OrderIndependentOfCompletion ==
    /\ InCandidateOrder(call.acc, call)
    /\ call.acc = SubSeq(OneByOne(call), 1, Len(call.acc))
    /\ InCandidateOrder(call.checkpoint, call)
    /\ call.fn = "handleEnrich" /\ call.i > 0 =>
          Len(call.checkpoint) = Len(Candidates(call))
    /\ returned # Pending /\ returned.kind = "return" =>
          /\ returned.results = OneByOne(call)
          /\ Len(returned.results) = Len(Candidates(call))

\* A group whose calls completed in another order than they were started has
\* been gathered, and the function has returned.
C23_Witness ==
    /\ returned # Pending
    /\ returned.kind = "return"
    /\ \E j \in 1..(Len(call.done) - 1) : call.done[j] > call.done[j + 1]
    /\ \E j \in 1..(Len(call.acc) - 1) :
          call.acc[j].icp_result # call.acc[j + 1].icp_result


(***************************************************************************)
(* Claims about the sequence of the groups of a run, checked under Spec.   *)
(***************************************************************************)
\* The batch requests the run is waiting for
InFlight ==
    IF run.pc = "group"
    THEN ParallelBatches(run.batches, run.i, ParallelOf(run.name)) ELSE <<>>

\* The items of the run's list that its settled groups covered, those before
\* the cursor it resumed from included, once the group in flight has settled.
ItemsSettled ==
    run.startIndex
        + Len(Flatten(SubSeq(run.batches, 1,
                             Min(run.i + ParallelOf(run.name), Len(run.batches)))))

CursorOf(saved) == IF IsFilterRun THEN saved.filterIndex ELSE saved.enrichIndex

StageRank(stg) ==
    CASE stg = "idle" -> 0
      [] stg = "fetching" -> 1
      [] stg = "filtering" -> 2
      [] stg = "enriching" -> 3
      [] stg = "complete" -> 4

\* C25: the stage of a run only follows idle, fetching, filtering, enriching,
\* complete: it is enriching while enrichment requests are being issued, it
\* becomes complete only when enrichment has finished, and within a run it never
\* moves back to an earlier stage.
C25_RunStateMachine ==
    [][/\ (IsEnrichRun' /\ run'.pc \in {"group", "delay"}) => stage' = "enriching"
       /\ (stage' = "complete" /\ stage # "complete") => (IsEnrichRun' /\ run'.pc = "done")
       /\ (~RunIdle /\ run'.name = run.name /\ run'.pc # "none") =>
             StageRank(stage') >= StageRank(stage)]_vars


(***************************************************************************)
(* Claims about batchFilterByLocation, checked under SpecPrefilter.        *)
(***************************************************************************)
LocationFails(lead) == ~isUSLocation(lead.location).isUS
FollowersFail(lead) == ~checkFollowerCount(lead.public_metrics).isValid
KeywordsFail(lead) == ~checkKeywords(lead.description).hasKeyword
FailedChecks(lead) ==
    { d \in {"Location", "Followers", "Keywords"} :
        \/ d = "Location" /\ LocationFails(lead)
        \/ d = "Followers" /\ FollowersFail(lead)
        \/ d = "Keywords" /\ KeywordsFail(lead) }
FailingLeads(leads) == SelectSeq(leads, LAMBDA lead : FailedChecks(lead) # {})

\* The lead as it was handed in, without the fields the filter added
AsHandedIn(r) ==
    [name |-> r.name, location |-> r.location, public_metrics |-> r.public_metrics,
     description |-> r.description]

\* C27: batchFilterByLocation puts a lead in qualifiedLeads if and only if the
\* location, follower and keyword checks all pass; otherwise rejection_reason
\* lists every failing check, in the order Location, Followers, Keywords.
C27_CombineRule ==
    IsCall("batchFilterByLocation") =>
        LET failing == FailingLeads(call.leads)
        IN  /\ returned.qualifiedLeads
                  = SelectSeq(call.leads, LAMBDA lead : FailedChecks(lead) = {})
            /\ Len(returned.rejectedLeads) = Len(failing)
            /\ \A j \in 1..Len(failing) :
                  LET r == returned.rejectedLeads[j]
                      prefixes == [p \in 1..Len(r.rejection_reason) |->
                                      r.rejection_reason[p].prefix]
                  IN  /\ AsHandedIn(r) = failing[j]
                      /\ prefixes = SelectSeq(<<"Location", "Followers", "Keywords">>,
                                              LAMBDA d : d \in FailedChecks(failing[j]))

\* A list with a lead that passes and a lead that fails all three checks
C27_Witness ==
    /\ IsCall("batchFilterByLocation")
    /\ Len(returned.qualifiedLeads) = 1
    /\ Len(returned.rejectedLeads) = 1
    /\ Len(returned.rejectedLeads[1].rejection_reason) = 3

\* The leads of the list that fail exactly the checks of the set given
FailingExactly(leads, checks) ==
    Cardinality({ k \in 1..Len(leads) : FailedChecks(leads[k]) = checks })
Occurrences(list, lead) == Cardinality({ k \in 1..Len(list) : list[k] = lead })

\* C28: after batchFilterByLocation, total = qualified + rejectedLocation +
\* rejectedFollowers + rejectedKeywords + rejectedMultiple; a lead failing exactly
\* one check is counted only in that check's bucket, a lead failing two or three
\* checks only in rejectedMultiple; qualifiedLeads and rejectedLeads together
\* hold every input lead exactly once.
C28_StatsPartition ==
    IsCall("batchFilterByLocation") =>
        LET leads == call.leads
            counters == returned.stats
            handedBack == returned.qualifiedLeads
                \o [j \in 1..Len(returned.rejectedLeads) |->
                       AsHandedIn(returned.rejectedLeads[j])]
        IN  /\ counters.total = Len(leads)
            /\ counters.total = counters.qualified + counters.rejectedLocation
                   + counters.rejectedFollowers + counters.rejectedKeywords
                   + counters.rejectedMultiple
            /\ counters.qualified = FailingExactly(leads, {})
            /\ counters.rejectedLocation = FailingExactly(leads, {"Location"})
            /\ counters.rejectedFollowers = FailingExactly(leads, {"Followers"})
            /\ counters.rejectedKeywords = FailingExactly(leads, {"Keywords"})
            /\ counters.rejectedMultiple =
                   Len(leads) - FailingExactly(leads, {}) - FailingExactly(leads, {"Location"})
                   - FailingExactly(leads, {"Followers"}) - FailingExactly(leads, {"Keywords"})
            /\ Len(handedBack) = Len(leads)
            /\ \A k \in 1..Len(leads) :
                   Occurrences(handedBack, leads[k]) = Occurrences(leads, leads[k])

\* A lead that fails one check and a lead that fails two have been counted.
C28_Witness ==
    /\ IsCall("batchFilterByLocation")
    /\ returned.stats.rejectedMultiple = 1
    /\ returned.stats.rejectedFollowers = 1
    /\ returned.stats.total = MaxPrefilterLeads


(***************************************************************************)
(* Claims about what a stage hands to the next, checked under SpecGating.  *)
(***************************************************************************)
IsPrefix(list, whole) == Len(list) <= Len(whole) /\ list = SubSeq(whole, 1, Len(list))

\* C26: a candidate is sent to the qualifier only if it passed the pre-filter
\* (Twitter pipeline), a lead is sent to the contact resolver only if its verdict
\* has decision exactly ACCEPT (LinkedIn pipeline), and the items that go on
\* keep their order.
C26_StageGating ==
    /\ call.fn = "processLeads" =>
          LET passing == SelectSeq(call.input, LAMBDA lead : FailedChecks(lead) = {})
          IN  /\ IsPrefix(call.forwarded, passing)
              /\ call.pc = "complete" => call.forwarded = passing
              /\ \A j \in 1..Len(call.accepted) :
                    \E k \in 1..Len(call.forwarded) :
                       call.accepted[j].lead = call.forwarded[k]
    /\ call.fn \in {"handleSubmit", "resumeFiltering"} =>
          LET accepting == SelectSeq(call.input,
                                     LAMBDA r : r.icp_result.decision = "ACCEPT")
          IN  /\ \A j \in 1..Len(call.forwarded) :
                    call.forwarded[j].icp_result.decision = "ACCEPT"
              /\ IsPrefix(ProfilesOf(call.forwarded), ProfilesOf(accepting))
              /\ call.pc = "complete" => Len(call.forwarded) = Len(accepting)

\* All the accepted leads of a list with rejected ones have been sent to the
\* resolver, in more than one group.
C26_Witness ==
    /\ call.fn = "handleSubmit"
    /\ call.pc = "complete"
    /\ Len(call.forwarded) > ENRICH_PARALLEL_BATCHES * ENRICH_BATCH_SIZE
    /\ Len(call.forwarded) < Len(call.input)


(***************************************************************************)
(* Claims about fetchPostReactions, checked under SpecPagesFair.           *)
(***************************************************************************)
\* Every page the endpoint has answers with the number of pages.
ReportsTotal(endpoint) ==
    \A p \in 1..endpoint.total : endpoint.pages[p].totalPages = endpoint.total
FailingPages(endpoint) == { p \in 1..endpoint.total : ~endpoint.pages[p].ok }
FirstFailing(endpoint) ==
    CHOOSE p \in FailingPages(endpoint) : \A q \in FailingPages(endpoint) : p <= q

RECURSIVE ItemsUpTo(_)
ItemsUpTo(p) == IF p = 0 THEN <<>> ELSE ItemsUpTo(p - 1) \o MappedReactions(PageItems(p))

PagesInOrder ==
    LET endpoint == call.endpoint
    IN  /\ call.requested = [k \in 1..Len(call.requested) |-> k]
        /\ call.waits = IF call.pc = "request" THEN Len(call.requested)
                        ELSE Len(call.requested) - 1
        /\ ReportsTotal(endpoint) =>
              /\ Len(call.requested) <= endpoint.total
              /\ returned # Pending =>
                    IF FailingPages(endpoint) = {}
                    THEN /\ returned.kind = "return"
                         /\ Len(call.requested) = endpoint.total
                         /\ returned.value = ItemsUpTo(endpoint.total)
                    ELSE /\ returned = [kind |-> "throw", error |-> "Clado API error"]
                         /\ Len(call.requested) = FirstFailing(endpoint)

\* C29: when the endpoint reports T pages, fetchPostReactions terminates after
\* requesting the pages 1 to T once each in increasing order, with the delay
\* between two consecutive requests, and returns the items of all pages in page
\* order; when a page request fails it throws and returns no list.
C29_Pagination ==
    /\ []PagesInOrder
    /\ <>(returned # Pending)

\* All the pages of an endpoint with the most pages were fetched and returned.
C29_Witness ==
    /\ call.fn = "fetchPostReactions"
    /\ ReportsTotal(call.endpoint)
    /\ call.endpoint.total = MaxPages
    /\ returned # Pending
    /\ returned.kind = "return"
    /\ call.waits = MaxPages - 1
    /\ Len(returned.value) > 2


(***************************************************************************)
(* Claims about the progress of a pass, checked under SpecProgress.        *)
(***************************************************************************)
IsPass == run.name \in {"handleSubmit", "resumeFiltering", "handleEnrich", "resumeEnriching"}

\* The list a pass goes over: the profiles when filtering, the leads when enriching.
PassList == IF IsFilterRun THEN run.allProfiles ELSE run.leads

\* The pass is waiting for a group of requests or for the delay between two groups.
PassInProgress == IsPass /\ run.pc \in {"group", "delay"}

\* The pass has finished, or a request failed, or the page was loaded anew.
PassOver ==
    \/ run.pc = "done" /\ stage = "complete"
    \/ run.pc = "failed"
    \/ run.pc = "none"

\* The cursor of the checkpoint the pass wrote last, the cursor it started from
\* when it has written none yet.
CursorBefore ==
    IF run.i = 0 \/ storage = NoCheckpoint THEN run.startIndex ELSE CursorOf(storage)

\* A group of requests goes out with the next items of the list, in order, after
\* the items of the groups before it.
GroupCarriesNextItems ==
    (run'.pc = "group" /\ run.pc # "group") =>
        LET before == run'.startIndex + Len(Flatten(SubSeq(run'.batches, 1, run'.i)))
            items == Flatten(InFlight')
        IN  /\ run'.i = 0 => before = run'.startIndex
            /\ items # <<>>
            /\ items = SubSeq(PassList', before + 1, before + Len(items))

\* The pass ends with stage complete, its last checkpoint at the end of the list,
\* one filter result per profile, and every lead from the starting cursor on sent
\* for enrichment once.
PassEndsComplete ==
    (IsPass' /\ run'.pc = "done" /\ run' # run) =>
        /\ stage' = "complete"
        /\ writes' # <<>> =>
              (IF IsFilterRun' THEN writes'[Len(writes')].filterIndex
               ELSE writes'[Len(writes')].enrichIndex) = Len(PassList')
        /\ IsFilterRun' =>
              /\ Len(run'.allFilteredResults) = Len(run'.allProfiles)
              /\ \A k \in 1..Len(run'.allProfiles) :
                    run'.allFilteredResults[k].profile = run'.allProfiles[k]
        /\ IsEnrichRun' =>
              sent' = ProfilesOf(SubSeq(run'.leads, run'.startIndex + 1, Len(run'.leads)))

\* The checkpoints a settling group writes: strictly increasing cursors when
\* strict, with a repeated cursor allowed for a checkpoint of stage complete
\* otherwise.
CheckpointCursors(strict) ==
    (run.pc = "group" /\ run'.pc \in {"delay", "done"}) =>
        /\ writes' # <<>>
        /\ CursorOf(writes'[1]) > CursorBefore
        /\ \A k \in 1..(Len(writes') - 1) :
              /\ CursorOf(writes'[k + 1]) >= CursorOf(writes'[k])
              /\ (strict \/ writes'[k + 1].stage # "complete") =>
                    CursorOf(writes'[k + 1]) > CursorOf(writes'[k])

\* C30 as stated: when no batch request fails, a pass over N items, fresh or
\* resumed from cursor c, eventually reaches stage complete; the cursors of its
\* successive checkpoints strictly increase, the last one is N, and every item
\* from the starting cursor on is sent exactly once.
C30_ProgressStrictCursors ==
    /\ [][GroupCarriesNextItems /\ PassEndsComplete /\ CheckpointCursors(TRUE)]_vars
    /\ PassInProgress ~> PassOver

\* C30, amended: as stated, except that the checkpoint of stage complete that
\* ends a filtering pass repeats the cursor N of the checkpoint of its last
\* group; the cursors of the checkpoints of the groups strictly increase.
C30_ProgressToCompletion ==
    /\ [][GroupCarriesNextItems /\ PassEndsComplete /\ CheckpointCursors(FALSE)]_vars
    /\ PassInProgress ~> PassOver

\* A filtering pass resumed from a cursor inside the list has finished: its last
\* group wrote a checkpoint at the end of the list, and so did the completion.
C30_Witness ==
    /\ run.name = "resumeFiltering"
    /\ run.pc = "done"
    /\ run.startIndex > 0
    /\ run.startIndex < Len(run.allProfiles)
    /\ stage = "complete"
    /\ Len(writes) = 2
    /\ writes[1].stage = "filtering"
    /\ writes[1].filterIndex = Len(run.allProfiles)
    /\ writes[2].stage = "complete"
    /\ writes[2].filterIndex = Len(run.allProfiles)

=========================================================================
